---------------------------- MODULE Spec2Model ----------------------------
(***************************************************************************)
(* A model of the ALEX C library: the status flag, the combinatorics       *)
(* routines (func.c), the interval type and the integration rules          *)
(* (integrate.c), the numeric calculus routines (diff.c), the polynomial   *)
(* routines (poly.c) and gcd (algebra.c).                                  *)
(*                                                                         *)
(* Every C function is an operator that takes the library's global state   *)
(* S and the call's arguments and yields an outcome [S, ret, crashed]      *)
(* (or, where C leaves the behaviour open, a set of outcomes).  Every      *)
(* action is one call of one public function.                              *)
(*                                                                         *)
(* Numbers.  unsigned int / unsigned long values are little-endian         *)
(* sequences of 8-bit limbs, so that arithmetic wraps at 2^32 / 2^64       *)
(* exactly as in C (LP64).  double values are IEEE 754 binary64 values:    *)
(* every operation yields the exact result rounded to the nearest double,  *)
(* ties to even, with signed zeros, subnormals, inf, -inf and nan.         *)
(*                                                                         *)
(* Environment.  malloc/calloc results are an input of the allocating      *)
(* functions; the actions draw them from MallocOutcomes: every allocation  *)
(* can succeed and can fail.                                               *)
(***************************************************************************)
EXTENDS Integers, Sequences, FiniteSets, TLC

VARIABLES
    flag,       \* flags.h: the current flag (alex_get_flag)
    dx_step,    \* diff.c: static double dx_step
    nbins,      \* integrate.c: static unsigned long nbins
    heap,       \* the malloc heap: address -> block
    pub_poly,   \* poly.c: static alex_poly *pub_poly
    alive,      \* FALSE once the process has been killed by a trap
    frame,      \* the locals of a running alex_integrate_bins call
    held,       \* the caller holds the function alex_poly_func has returned
    last        \* the most recent call: [op, args, ret, status, evals],
                \* status being "running", "returned" or "crashed", evals
                \* the arguments it has invoked the caller's function f with

\* The name of the last call stands first: two states with different calls
\* are then told apart before the calls' arguments and return values, which
\* are of different types from one function to the next, are compared.
vars == <<last.op, flag, dx_step, nbins, heap, pub_poly, alive, frame, held, last>>

-----------------------------------------------------------------------------
(* Bounds of the model *)

MaxFactArg == 22        \* arguments of alex_fact / alex_factl: 0..MaxFactArg
MaxBinomArg == 5        \* arguments of alex_binom_coeff(l): 0..MaxBinomArg
MaxDNum == 1            \* double arguments: n/d with |n| <= MaxDNum, d in 1..2
MaxBins == 2            \* arguments of alex_set_bins: 0..MaxBins
MaxBlocks == 5          \* heap blocks that can be live at once
MaxDeg == 1             \* degrees alex_make_poly is called with: 0..MaxDeg
MaxCoef == 0            \* coefficients alex_make_poly is given: -1..MaxCoef
MaxIndex == 3           \* indices alex_poly_coeff is called with: 0..MaxIndex
MaxCount == 2           \* subinterval counts: up to MaxCount
MaxIterations == 3      \* iteration counts of alex_secant_method: 0..MaxIterations
MaxGcdArg == 4          \* arguments of alex_gcd: 0..MaxGcdArg
MaxLcmArg == 8          \* arguments of alex_lcm: 0..MaxLcmArg, and LargeLcmArg
LargeLcmArg == 65536    \* a larger argument alex_lcm is also called with
LargeCount == 10        \* a larger subinterval count the rules are also called with
MaxRangeEnd == 1        \* end points of the ranges the numeric routines get: 0..MaxRangeEnd

-----------------------------------------------------------------------------
(* flags.h *)

ALEX_OK_FLAG == 0
ALEX_BAD_ALLOC_FLAG == 101
ALEX_INV_PARAM_FLAG == 102
ALEX_ALG_INV_OP_FLAG == 201
ALEX_POLY_INDEX_GT_DEG_FLAG == 401
ALEX_FACT_OVERFLOW_FLAG == 501
ALEX_INV_RANGE_FLAG == 506
ALEX_NEG_DX == 601

\* void alex_set_flag(int flag): the new value of the global state
alex_set_flag(S, f) == [S EXCEPT !.flag = f]

\* int alex_get_flag(void)
alex_get_flag(S) == S.flag

-----------------------------------------------------------------------------
(* Unsigned machine integers: little-endian sequences of limbs below Base *)

Base == 2^8
IntBits == 32       \* unsigned int
LongBits == 64      \* unsigned long (LP64)
WideBits == 2 * LongBits

NLimbs(w) == w \div 8

RECURSIVE UFromNat(_, _)
UFromNat(n, k) ==
    IF k = 0 THEN <<>> ELSE <<n % Base>> \o UFromNat(n \div Base, k - 1)

UZero(w) == UFromNat(0, NLimbs(w))
UOne(w) == UFromNat(1, NLimbs(w))
UMax(w) == [i \in 1..NLimbs(w) |-> Base - 1]

\* the value is below 2^24, so that it is an integer TLC can hold
USmall(a) == \A i \in 4..Len(a) : a[i] = 0

USmallNat(a) == a[1] + Base * a[2] + Base * Base * a[3]

\* an unsigned int value converted to int (two's complement)
ToInt(u) ==
    LET top == u[NLimbs(IntBits)]
    IN  USmallNat(u)
          + Base * Base * Base * (IF top >= Base \div 2 THEN top - Base ELSE top)

\* an unsigned long value converted to int, as in int n = alex_get_bins():
\* the value modulo 2^IntBits (its low limbs), in two's complement
ULongToInt(u) == ToInt(SubSeq(u, 1, NLimbs(IntBits)))

\* the unsigned long of value n, for a natural n TLC can hold
ULong(n) == UFromNat(n, NLimbs(LongBits))

\* a * k + c truncated to Len(a) limbs, for a multiplier k below 2^22
RECURSIVE UMulSmallC(_, _, _)
UMulSmallC(a, k, c) ==
    IF a = <<>> THEN <<>>
    ELSE LET p == Head(a) * k + c
         IN  <<p % Base>> \o UMulSmallC(Tail(a), k, p \div Base)

UMulSmall(a, k) == UMulSmallC(a, k, 0)

\* a <= i for a small natural i
ULeNat(a, i) == USmall(a) /\ USmallNat(a) <= i

\* a + b + c truncated to Len(a) limbs
RECURSIVE UAddC(_, _, _)
UAddC(a, b, c) ==
    IF a = <<>> THEN <<>>
    ELSE LET s == Head(a) + Head(b) + c
         IN  <<s % Base>> \o UAddC(Tail(a), Tail(b), s \div Base)

UAdd(a, b) == UAddC(a, b, 0)

\* a * Base^j truncated to Len(a) limbs
UShiftLimbs(a, j) ==
    [i \in 1..Len(a) |-> IF i <= j THEN 0 ELSE a[i - j]]

\* a * b truncated to Len(a) limbs: the sum of a * b[j] * Base^(j-1)
RECURSIVE UMulFrom(_, _, _)
UMulFrom(a, b, j) ==
    IF j > Len(b) THEN [i \in 1..Len(a) |-> 0]
    ELSE UAdd(UShiftLimbs(UMulSmall(a, b[j]), j - 1), UMulFrom(a, b, j + 1))

UMul(a, b) == UMulFrom(a, b, 1)

\* a < b, comparing from the most significant limb down
RECURSIVE ULtFrom(_, _, _)
ULtFrom(a, b, i) ==
    IF i = 0 THEN FALSE
    ELSE IF a[i] # b[i] THEN a[i] < b[i]
    ELSE ULtFrom(a, b, i - 1)

ULt(a, b) == ULtFrom(a, b, Len(a))

\* a - b - c modulo Base^Len(a)
RECURSIVE USubC(_, _, _)
USubC(a, b, c) ==
    IF a = <<>> THEN <<>>
    ELSE LET s == Head(a) - Head(b) - c
         IN  <<s % Base>> \o USubC(Tail(a), Tail(b), IF s < 0 THEN 1 ELSE 0)

USub(a, b) == USubC(a, b, 0)

\* Long division a / b for b # 0, one limb of the quotient at a time from the
\* most significant down.  The remainder r and the divisor bw are one limb
\* wider than a, so that r * Base + a[i] and bw * (d + 1) never wrap.
RECURSIVE UDivFrom(_, _, _, _, _)
UDivFrom(a, bw, i, q, r) ==
    IF i = 0 THEN q
    ELSE LET r2 == <<a[i]>> \o SubSeq(r, 1, Len(r) - 1)
             d == CHOOSE e \in 0..(Base - 1) :
                      /\ ~ULt(r2, UMulSmall(bw, e))
                      /\ ULt(r2, UMulSmall(bw, e + 1))
         IN  UDivFrom(a, bw, i - 1, [q EXCEPT ![i] = d],
                      USub(r2, UMulSmall(bw, d)))

UDiv(a, b) ==
    UDivFrom(a, b \o <<0>>, Len(a),
             [i \in 1..Len(a) |-> 0], [i \in 1..Len(a) + 1 |-> 0])

-----------------------------------------------------------------------------
(* Natural numbers of any size: little-endian sequences of limbs below      *)
(* LimbBase whose most significant limb is not zero (the empty sequence is  *)
(* zero).  They hold the significands of the double values.                 *)

LimbBits == 15
LimbBase == 2^LimbBits

Max(i, j) == IF i < j THEN j ELSE i
Min(i, j) == IF i < j THEN i ELSE j

RECURSIVE BFromNat(_)
BFromNat(n) ==
    IF n = 0 THEN <<>> ELSE <<n % LimbBase>> \o BFromNat(n \div LimbBase)

\* a without its most significant zero limbs
RECURSIVE BTrim(_)
BTrim(a) ==
    IF a = <<>> THEN a
    ELSE IF a[Len(a)] = 0 THEN BTrim(SubSeq(a, 1, Len(a) - 1))
    ELSE a

\* a + b + c for a carry c
RECURSIVE BAddC(_, _, _)
BAddC(a, b, c) ==
    IF a = <<>> /\ b = <<>> THEN (IF c = 0 THEN <<>> ELSE <<c>>)
    ELSE IF a = <<>> THEN BAddC(b, a, c)
    ELSE LET s == Head(a) + (IF b = <<>> THEN 0 ELSE Head(b)) + c
         IN  <<s % LimbBase>>
                 \o BAddC(Tail(a), IF b = <<>> THEN b ELSE Tail(b), s \div LimbBase)

BAdd(a, b) == BAddC(a, b, 0)

\* a < b
RECURSIVE BLtFrom(_, _, _)
BLtFrom(a, b, i) ==
    IF i = 0 THEN FALSE
    ELSE IF a[i] # b[i] THEN a[i] < b[i]
    ELSE BLtFrom(a, b, i - 1)

BLt(a, b) ==
    IF Len(a) # Len(b) THEN Len(a) < Len(b) ELSE BLtFrom(a, b, Len(a))

\* a - b - c for a >= b + c, before the leading zero limbs are removed
RECURSIVE BSubC(_, _, _)
BSubC(a, b, c) ==
    IF a = <<>> THEN <<>>
    ELSE LET s == Head(a) - (IF b = <<>> THEN 0 ELSE Head(b)) - c
         IN  <<s % LimbBase>>
                 \o BSubC(Tail(a), IF b = <<>> THEN b ELSE Tail(b),
                          IF s < 0 THEN 1 ELSE 0)

BSub(a, b) == BTrim(BSubC(a, b, 0))

\* a * k + c for a multiplier k below LimbBase
RECURSIVE BMulSmallC(_, _, _)
BMulSmallC(a, k, c) ==
    IF a = <<>> THEN (IF c = 0 THEN <<>> ELSE <<c>>)
    ELSE LET p == Head(a) * k + c
         IN  <<p % LimbBase>> \o BMulSmallC(Tail(a), k, p \div LimbBase)

\* a * LimbBase^j
BShiftLimbs(a, j) ==
    IF a = <<>> THEN a ELSE [i \in 1..j |-> 0] \o a

RECURSIVE BMulFrom(_, _, _)
BMulFrom(a, b, j) ==
    IF j > Len(b) THEN <<>>
    ELSE BAdd(BShiftLimbs(BTrim(BMulSmallC(a, b[j], 0)), j - 1),
              BMulFrom(a, b, j + 1))

BMul(a, b) == BMulFrom(a, b, 1)

\* a * 2^n
BShl(a, n) ==
    BShiftLimbs(BMulSmallC(a, 2^(n % LimbBits), 0), n \div LimbBits)

\* a \div 2^n
BShr(a, n) ==
    LET j == n \div LimbBits
        r == 2^(n % LimbBits)
    IN  IF j >= Len(a) THEN <<>>
        ELSE BTrim([i \in 1..(Len(a) - j) |->
                       (a[i + j] \div r)
                       + (IF i + j < Len(a)
                          THEN (a[i + j + 1] % r) * (LimbBase \div r)
                          ELSE 0)])

\* the number of binary digits of a limb, and of a
RECURSIVE BitLenLimb(_)
BitLenLimb(x) == IF x = 0 THEN 0 ELSE 1 + BitLenLimb(x \div 2)

BitLen(a) ==
    IF a = <<>> THEN 0
    ELSE LimbBits * (Len(a) - 1) + BitLenLimb(a[Len(a)])

\* binary digit i of a (digit 0 is the least significant)
BBit(a, i) ==
    LET j == (i \div LimbBits) + 1
    IN  IF j > Len(a) THEN 0 ELSE (a[j] \div 2^(i % LimbBits)) % 2

\* the n least significant binary digits of a are all zero
BLowZero(a, n) ==
    LET j == n \div LimbBits
    IN  /\ \A i \in 1..Min(j, Len(a)) : a[i] = 0
        /\ j + 1 > Len(a) \/ a[j + 1] % 2^(n % LimbBits) = 0

\* the number of zero binary digits a limb x # 0, and a # 0, ends with
RECURSIVE TrailingZerosLimb(_)
TrailingZerosLimb(x) == IF x % 2 = 1 THEN 0 ELSE 1 + TrailingZerosLimb(x \div 2)

RECURSIVE BTrailingZeros(_)
BTrailingZeros(a) ==
    IF a[1] = 0 THEN LimbBits + BTrailingZeros(Tail(a))
    ELSE TrailingZerosLimb(a[1])

\* One step of the long division by b, whose top limb is at least
\* LimbBase / 2: the greatest q <= qh with q * b <= r, for r < b * LimbBase
\* and a guess qh that is not below the quotient, and the remainder left
RECURSIVE BDivStep(_, _, _)
BDivStep(r, b, qh) ==
    LET p == BTrim(BMulSmallC(b, qh, 0))
    IN  IF BLt(r, p) THEN BDivStep(r, b, qh - 1)
        ELSE [q |-> qh, r |-> BSub(r, p)]

\* the guess: the two top limbs of r divided by the top limb of b
BDivGuess(r, b) ==
    LET n == Len(b)
        top == IF Len(r) > n THEN r[n + 1] * LimbBase + r[n]
               ELSE IF Len(r) = n THEN r[n] ELSE 0
    IN  Min(LimbBase - 1, top \div b[n])

\* the limbs i..1 of a are brought down, from the top, onto the remainder r;
\* q holds the limbs of the quotient found so far
RECURSIVE BDivFrom(_, _, _, _, _)
BDivFrom(a, b, i, q, r) ==
    IF i = 0 THEN [q |-> BTrim(q), r |-> r]
    ELSE LET r2 == BTrim(<<a[i]>> \o r)
             st == BDivStep(r2, b, BDivGuess(r2, b))
         IN  BDivFrom(a, b, i - 1, <<st.q>> \o q, st.r)

\* quotient and remainder of a by b # 0: both are first multiplied by the
\* power of two that brings the top limb of b to LimbBase / 2 or more
BDivMod(a, b) ==
    LET sh == LimbBits - BitLenLimb(b[Len(b)])
        A == BShl(a, sh)
        qr == BDivFrom(A, BShl(b, sh), Len(A), <<>>, <<>>)
    IN  [q |-> qr.q, r |-> BShr(qr.r, sh)]

-----------------------------------------------------------------------------
(* double values (IEEE 754 binary64, round to nearest, ties to even).  A    *)
(* finite value is s * m * 2^e with a sign s, an odd significand m below    *)
(* 2^53 and e >= -1074; zero has m = 0, e = 0 and keeps its sign.  The      *)
(* sign and the payload of a nan are not modelled.                          *)

MantBits == 53          \* DBL_MANT_DIG
MinExp == -1074         \* the exponent of the smallest subnormal
MaxExp == 1024          \* DBL_MAX_EXP: every finite value is below 2^MaxExp

NaN == [k |-> "nan", s |-> 1, m |-> <<>>, e |-> 0]
Inf(s) == [k |-> "inf", s |-> s, m |-> <<>>, e |-> 0]
DZero(s) == [k |-> "fin", s |-> s, m |-> <<>>, e |-> 0]

\* s * M * 2^E for a value of at most MantBits digits at or above 2^MinExp:
\* infinite when it is too large, else with its significand made odd
DPack(s, M, E) ==
    IF M = <<>> THEN DZero(s)
    ELSE IF BitLen(M) + E > MaxExp THEN Inf(s)
    ELSE LET tz == BTrailingZeros(M)
         IN  IF tz = 0 THEN [k |-> "fin", s |-> s, m |-> M, e |-> E]
             ELSE [k |-> "fin", s |-> s, m |-> BShr(M, tz), e |-> E + tz]

\* the double nearest to s * M * 2^E: the sh digits that do not fit are
\* dropped, and the rest goes up by one when they are more than half a unit,
\* or exactly half a unit and the rest is odd
DRound(s, M, E) ==
    LET sh == Max(BitLen(M) - MantBits, MinExp - E)
    IN  IF sh <= 0 THEN DPack(s, M, E)
        ELSE LET q == BShr(M, sh)
                 up == /\ BBit(M, sh - 1) = 1
                       /\ ~BLowZero(M, sh - 1) \/ BBit(M, sh) = 1
             IN  DPack(s, IF up THEN BAddC(q, <<>>, 1) ELSE q, E + sh)

\* (double) n for an int n; -(n + 1) is a value of int for the least int too
D(n) ==
    IF n < 0 THEN DRound(-1, BAddC(BFromNat(-(n + 1)), <<>>, 1), 0)
    ELSE DRound(1, BFromNat(n), 0)

\* the double nearest to an unsigned long u, taken three limbs at a time
DFromULong(u) ==
    DRound(1, BAdd(BFromNat(USmallNat(u)),
                   BAdd(BShl(BFromNat(USmallNat(SubSeq(u, 4, 6))), 24),
                        BShl(BFromNat(u[7] + Base * u[8]), 48))), 0)

DIsZero(a) == a.k = "fin" /\ a.m = <<>>

\* -a
DNeg(a) == IF a.k = "nan" THEN a ELSE [a EXCEPT !.s = -a.s]

\* fabs(a)
DAbs(a) == IF a.k = "nan" THEN a ELSE [a EXCEPT !.s = 1]

\* a + b for finite a and b other than zero, b being so far below a that
\* all it decides is the side of a the sum lies on: a is written with
\* FarBits more digits, and the last of them is moved by one
FarBits == 64

DAddFar(a, b) ==
    LET A == BShl(a.m, FarBits)
    IN  DRound(a.s, IF a.s = b.s THEN BAddC(A, <<>>, 1) ELSE BSub(A, <<1>>),
               a.e - FarBits)

\* a + b for the values a and b: the exact sum, rounded
DAddV(a, b) ==
    IF a.k = "nan" \/ b.k = "nan" THEN NaN
    ELSE IF a.k = "inf" THEN (IF b.k = "inf" /\ b.s # a.s THEN NaN ELSE a)
    ELSE IF b.k = "inf" THEN b
    ELSE IF DIsZero(a) THEN (IF DIsZero(b) /\ a.s # b.s THEN DZero(1) ELSE b)
    ELSE IF DIsZero(b) THEN a
    ELSE IF BitLen(b.m) + b.e <= a.e - FarBits THEN DAddFar(a, b)
    ELSE IF BitLen(a.m) + a.e <= b.e - FarBits THEN DAddFar(b, a)
    ELSE LET e == Min(a.e, b.e)
             A == BShl(a.m, a.e - e)
             B == BShl(b.m, b.e - e)
         IN  IF a.s = b.s THEN DRound(a.s, BAdd(A, B), e)
             ELSE IF A = B THEN DZero(1)
             ELSE IF BLt(A, B) THEN DRound(b.s, BSub(B, A), e)
             ELSE DRound(a.s, BSub(A, B), e)

\* x + y; the operands are evaluated first, each of them once
DAdd(x, y) == CHOOSE r \in {DAddV(a, b) : a \in {x}, b \in {y}} : TRUE

\* a - b
DSub(a, b) == DAdd(a, DNeg(b))

\* a * b for the values a and b: the exact product, rounded
DMulV(a, b) ==
    IF a.k = "nan" \/ b.k = "nan" THEN NaN
    ELSE IF a.k = "inf" \/ b.k = "inf"
         THEN (IF DIsZero(a) \/ DIsZero(b) THEN NaN ELSE Inf(a.s * b.s))
    ELSE DRound(a.s * b.s, BMul(a.m, b.m), a.e + b.e)

\* x * y; the operands are evaluated first, each of them once
DMul(x, y) == CHOOSE r \in {DMulV(a, b) : a \in {x}, b \in {y}} : TRUE

\* a / b for the values a and b: the quotient of the significands is worked
\* out to more digits than a double holds, with one more digit that says
\* whether anything is left
DDivV(a, b) ==
    IF a.k = "nan" \/ b.k = "nan" THEN NaN
    ELSE IF a.k = "inf" THEN (IF b.k = "inf" THEN NaN ELSE Inf(a.s * b.s))
    ELSE IF b.k = "inf" THEN DZero(a.s * b.s)
    ELSE IF DIsZero(b) THEN (IF DIsZero(a) THEN NaN ELSE Inf(a.s * b.s))
    ELSE IF DIsZero(a) THEN DZero(a.s * b.s)
    ELSE IF b.m = <<1>> THEN DRound(a.s * b.s, a.m, a.e - b.e)
    ELSE LET sh == Max(0, MantBits + 3 + BitLen(b.m) - BitLen(a.m))
             qr == BDivMod(BShl(a.m, sh), b.m)
         IN  DRound(a.s * b.s,
                    BAddC(qr.q, qr.q, IF qr.r = <<>> THEN 0 ELSE 1),
                    a.e - b.e - sh - 1)

\* x / y; the operands are evaluated first, each of them once
DDiv(x, y) == CHOOSE r \in {DDivV(a, b) : a \in {x}, b \in {y}} : TRUE

\* a == b
DEq(a, b) ==
    /\ a.k # "nan" /\ b.k # "nan"
    /\ a = b \/ (DIsZero(a) /\ DIsZero(b))

\* |a| < |b| for finite a and b other than zero
DMagLt(a, b) ==
    LET ta == BitLen(a.m) + a.e
        tb == BitLen(b.m) + b.e
        e == Min(a.e, b.e)
    IN  IF ta # tb THEN ta < tb
        ELSE BLt(BShl(a.m, a.e - e), BShl(b.m, b.e - e))

\* a < b
DLt(a, b) ==
    IF a.k = "nan" \/ b.k = "nan" THEN FALSE
    ELSE IF DIsZero(a) /\ DIsZero(b) THEN FALSE
    ELSE IF a.k = "inf" THEN a.s = -1 /\ ~(b.k = "inf" /\ b.s = -1)
    ELSE IF b.k = "inf" THEN b.s = 1
    ELSE IF DIsZero(a) THEN b.s = 1
    ELSE IF DIsZero(b) THEN a.s = -1
    ELSE IF a.s # b.s THEN a.s < b.s
    ELSE IF a.s = 1 THEN DMagLt(a, b) ELSE DMagLt(b, a)

\* a <= b
DLe(a, b) == DLt(a, b) \/ DEq(a, b)

\* the double a decimal literal n/d of the source denotes: the one nearest
\* to the rational n/d (d > 0)
DNorm(n, d) == DDiv(D(n), D(d))

Abs(n) == IF n < 0 THEN -n ELSE n

\* the double values the calls are given
DVals == {DNorm(n, d) : n \in -MaxDNum..MaxDNum, d \in {1, 2}}

-----------------------------------------------------------------------------
(* The global state of the library and the outcome of a call *)

St == [flag |-> flag, dx_step |-> dx_step, nbins |-> nbins,
       heap |-> heap, pub_poly |-> pub_poly]

\* what a void function returns
NoRet == [k |-> "void"]

Ret(S, v) == [S |-> S, ret |-> v, crashed |-> FALSE]
\* the process is killed inside the call; nothing is returned, and ret holds
\* a placeholder v of the function's return type
Crash(S, v) == [S |-> S, ret |-> v, crashed |-> TRUE]

\* the statements F that follow a call with outcome v: v is computed first,
\* once, and F continues from it
Bind(v, F(_)) == CHOOSE r \in {F(a) : a \in {v}} : TRUE

\* The heap.  A block is free, an alex_poly struct (deg and the address of
\* its coefficient array) or an array of doubles.
NULL == 0
Addr == 1..MaxBlocks
FreeBlock == [kind |-> "free", deg |-> 0, coeffs |-> NULL, data |-> <<>>]
PolyBlock(deg, c) == [kind |-> "poly", deg |-> deg, coeffs |-> c, data |-> <<>>]
ArrayBlock(data) == [kind |-> "array", deg |-> 0, coeffs |-> NULL, data |-> data]

FreeAddrs(S) == {a \in DOMAIN S.heap : S.heap[a].kind = "free"}

\* the block malloc / calloc hands out: the lowest free address
Alloc(S) == CHOOSE a \in FreeAddrs(S) : \A b \in FreeAddrs(S) : a <= b

\* free(a)
Free(S, a) == [S EXCEPT !.heap[a] = FreeBlock]

\* the allocations that are live
LiveBlocks(S) == DOMAIN S.heap \ FreeAddrs(S)

\* the polynomials that are live: the structs alex_make_poly has handed out.
\* A struct whose coefficient array could not be allocated is handed to
\* nobody: it stays in the heap with coeffs == NULL.
LivePolys(S) ==
    {a \in DOMAIN S.heap : S.heap[a].kind = "poly" /\ S.heap[a].coeffs # NULL}

\* poly->coeffs[0..deg] as a sequence (C index k is index k + 1 here)
CoeffsOf(S, poly) == S.heap[S.heap[poly].coeffs].data

\* the locals of alex_integrate_bins while it runs
NoFrame == [active |-> FALSE, area |-> D(0), cur |-> D(0), step |-> D(0)]

\* the functions callers pass as alex_func_1d: 1, x and 2x - 1
UserFuncs == {"one", "ident", "affine"}

UserFunc(f, x) ==
    CASE f = "one" -> D(1)
      [] f = "ident" -> x
      [] f = "affine" -> DSub(DMul(D(2), x), D(1))

-----------------------------------------------------------------------------
(* func.c: factorial and binomial coefficient *)

\* The loop of alex_fact / alex_factl from the state (res, i):
\*     for (i = 0; i < x; ++i) { res *= i; if (res <= i) overflow; }
RECURSIVE FactLoop(_, _, _)
FactLoop(res, i, x) ==
    IF i < x
    THEN LET r == UMulSmall(res, i)
         IN  IF ULeNat(r, i) THEN [overflow |-> TRUE, res |-> r]
             ELSE FactLoop(r, i + 1, x)
    ELSE [overflow |-> FALSE, res |-> res]

\* the same loop with the overflow test left out
RECURSIVE FactLoopUnchecked(_, _, _)
FactLoopUnchecked(res, i, x) ==
    IF i < x THEN FactLoopUnchecked(UMulSmall(res, i), i + 1, x)
    ELSE [overflow |-> FALSE, res |-> res]

alex_fact_unchecked(S, x) ==
    LET l == FactLoopUnchecked(UOne(IntBits), 0, x)
    IN  Ret(alex_set_flag(S, ALEX_OK_FLAG), UMulSmall(l.res, x))

alex_fact(S, x) ==
    LET l == FactLoop(UOne(IntBits), 0, x)
    IN  IF l.overflow
        THEN Ret(alex_set_flag(S, ALEX_FACT_OVERFLOW_FLAG), UZero(IntBits))
        ELSE Ret(alex_set_flag(S, ALEX_OK_FLAG), UMulSmall(l.res, x))

alex_factl(S, x) ==
    LET l == FactLoop(UOne(LongBits), 0, x)
    IN  IF l.overflow
        THEN Ret(alex_set_flag(S, ALEX_FACT_OVERFLOW_FLAG), UZero(LongBits))
        ELSE Ret(alex_set_flag(S, ALEX_OK_FLAG), UMulSmall(l.res, x))

\* What an unsigned division by zero can do: trap (x86), or yield a value
\* the hardware or the optimiser picks.
DivByZeroValues(w) == {UZero(w), UOne(w), UMax(w)}

\* fm / (fn * fd) where fm, fn, fd are the outcomes of the three factorial
\* calls.  C leaves the order of the three calls open, so the flag that
\* survives is the flag of whichever call ran last.
BinomQuotient(S, fm, fn, fd, w) ==
    LET den == UMul(fn.ret, fd.ret)
        finals == {alex_set_flag(S, f.S.flag) : f \in {fm, fn, fd}}
    IN  IF den = UZero(w)
        THEN {Crash(T, UZero(w)) : T \in finals}
             \cup {Ret(T, v) : T \in finals, v \in DivByZeroValues(w)}
        ELSE {Ret(T, UDiv(fm.ret, den)) : T \in finals}

\* the m < n branch without the call of alex_set_flag
alex_binom_coeff_noflag(S, m, n) ==
    IF m < n
    THEN {Ret(S, UZero(IntBits))}
    ELSE BinomQuotient(S, alex_fact(S, m), alex_fact(S, n),
                       alex_fact(S, m - n), IntBits)

alex_binom_coeff(S, m, n) ==
    IF m < n
    THEN {Ret(alex_set_flag(S, ALEX_INV_PARAM_FLAG), UZero(IntBits))}
    ELSE BinomQuotient(S, alex_fact(S, m), alex_fact(S, n),
                       alex_fact(S, m - n), IntBits)

alex_binom_coeffl(S, m, n) ==
    IF m < n
    THEN {Ret(alex_set_flag(S, ALEX_INV_PARAM_FLAG), UZero(LongBits))}
    ELSE BinomQuotient(S, alex_factl(S, m), alex_factl(S, n),
                       alex_factl(S, m - n), LongBits)

-----------------------------------------------------------------------------
(* func.h: alex_range; integrate.c: the bin count and the interval type *)

ALEX_DEFAULT_NBINS == 1000

\* alex_range *: NULL, or a struct with the fields min and max
NULL_RANGE == [null |-> TRUE, min |-> D(0), max |-> D(0)]
Range(min, max) == [null |-> FALSE, min |-> min, max |-> max]

\* what malloc / calloc can answer: TRUE is a fresh block, FALSE is NULL
MallocOutcomes == {TRUE, FALSE}

alex_set_bins(S, n) ==
    Ret([alex_set_flag(S, ALEX_OK_FLAG) EXCEPT !.nbins = n], NoRet)

\* alex_get_bins with a call of alex_set_flag(ALEX_OK_FLAG) added
alex_get_bins_setting_flag(S) == Ret(alex_set_flag(S, ALEX_OK_FLAG), S.nbins)

alex_get_bins(S) == Ret(S, S.nbins)

\* alex_make_range with the test max <= min in place of max < min
alex_make_range_strict(S, min, max, mem) ==
    IF DLe(max, min)
    THEN Ret(alex_set_flag(S, ALEX_INV_RANGE_FLAG), NULL_RANGE)
    ELSE IF ~mem
    THEN Ret(alex_set_flag(S, ALEX_BAD_ALLOC_FLAG), NULL_RANGE)
    ELSE Ret(alex_set_flag(S, ALEX_OK_FLAG), Range(min, max))

\* mem is the answer of malloc(sizeof(alex_range))
alex_make_range(S, min, max, mem) ==
    IF DLt(max, min)
    THEN Ret(alex_set_flag(S, ALEX_INV_RANGE_FLAG), NULL_RANGE)
    ELSE IF ~mem
    THEN Ret(alex_set_flag(S, ALEX_BAD_ALLOC_FLAG), NULL_RANGE)
    ELSE Ret(alex_set_flag(S, ALEX_OK_FLAG), Range(min, max))

\* range->max - range->min; a NULL range is dereferenced, which traps
alex_range_abs(S, range) ==
    IF range.null THEN Crash(S, NaN)
    ELSE Ret(S, DSub(range.max, range.min))

-----------------------------------------------------------------------------
(* diff.c: the dx step *)

ALEX_DEFAULT_DX == DNorm(1, 10^8)

\* alex_set_dx with the test dx <= 0 in place of dx < 0
alex_set_dx_rejecting_zero(S, dx) ==
    IF DLe(dx, D(0))
    THEN Ret(alex_set_flag(S, ALEX_NEG_DX), NoRet)
    ELSE Ret(alex_set_flag([S EXCEPT !.dx_step = dx], ALEX_OK_FLAG), NoRet)

alex_set_dx(S, dx) ==
    IF DLt(dx, D(0))
    THEN Ret(alex_set_flag(S, ALEX_NEG_DX), NoRet)
    ELSE Ret(alex_set_flag([S EXCEPT !.dx_step = dx], ALEX_OK_FLAG), NoRet)

alex_get_dx(S) == Ret(S, S.dx_step)

\* the secant loop from the state (x0, x1) with i iterations done:
\*     x2 = x1 - f(x1) * (x1 - x0) / (f(x1) - f(x0)); x0 = x1; x1 = x2;
RECURSIVE SecantLoop(_, _, _, _, _, _)
SecantLoop(f, x0, x1, x2, i, iterations) ==
    IF i < iterations
    THEN LET y == DSub(x1, DDiv(DMul(UserFunc(f, x1), DSub(x1, x0)),
                                DSub(UserFunc(f, x1), UserFunc(f, x0))))
         IN  SecantLoop(f, x1, y, y, i + 1, iterations)
    ELSE x2

\* the secant loop with a convergence test: it is left once f(x1) is 0
RECURSIVE SecantLoopConverging(_, _, _, _, _, _)
SecantLoopConverging(f, x0, x1, x2, i, iterations) ==
    IF i < iterations /\ ~DIsZero(UserFunc(f, x1))
    THEN LET y == DSub(x1, DDiv(DMul(UserFunc(f, x1), DSub(x1, x0)),
                                DSub(UserFunc(f, x1), UserFunc(f, x0))))
         IN  SecantLoopConverging(f, x1, y, y, i + 1, iterations)
    ELSE x1

alex_secant_method_converging(S, f, range, iterations) ==
    IF iterations = 0
    THEN Ret(alex_set_flag(S, ALEX_INV_PARAM_FLAG), D(0))
    ELSE IF range.null THEN Crash(S, NaN)
    ELSE Ret(S, SecantLoopConverging(f, range.min, range.max, NaN, 0, iterations))

\* alex_secant_method without the test of iterations: x2 is returned as it
\* was declared
alex_secant_method_untested(S, f, range, iterations) ==
    IF range.null THEN Crash(S, NaN)
    ELSE Ret(S, SecantLoop(f, range.min, range.max, NaN, 0, iterations))

alex_secant_method(S, f, range, iterations) ==
    IF iterations = 0
    THEN Ret(alex_set_flag(S, ALEX_INV_PARAM_FLAG), D(0))
    ELSE IF range.null THEN Crash(S, NaN)
    ELSE Ret(S, SecantLoop(f, range.min, range.max, NaN, 0, iterations))

\* the arguments the loop invokes f with, in the order they are written
RECURSIVE SecantLoopEvals(_, _, _, _, _)
SecantLoopEvals(f, x0, x1, i, iterations) ==
    IF i < iterations
    THEN LET y == DSub(x1, DDiv(DMul(UserFunc(f, x1), DSub(x1, x0)),
                                DSub(UserFunc(f, x1), UserFunc(f, x0))))
         IN  <<x1, x1, x0>> \o SecantLoopEvals(f, x1, y, i + 1, iterations)
    ELSE <<>>

\* the invocations of f by alex_secant_method: none before the test of
\* iterations, three in every pass of the loop
alex_secant_method_evals(S, f, range, iterations) ==
    IF iterations = 0 THEN <<>>
    ELSE IF range.null THEN <<>>
    ELSE SecantLoopEvals(f, range.min, range.max, 0, iterations)

alex_diff(S, f, x) ==
    Ret(S, DDiv(DSub(UserFunc(f, DAdd(x, S.dx_step)), UserFunc(f, x)), S.dx_step))

\* the invocations of f by alex_diff: f(x + dx_step) and f(x)
alex_diff_evals(S, f, x) == <<DAdd(x, S.dx_step), x>>

-----------------------------------------------------------------------------
(* integrate.c: the integration rules *)

\* alex_integrate_bins up to the loop:
\*     int n = alex_get_bins();
\*     double area = 0, cur = range->min, step = alex_range_abs(range) / n;
\* The outcome holds the locals the loop starts from.  A NULL range is
\* dereferenced at range->min, which traps before f is invoked.
alex_integrate_bins_enter(S, range) ==
    LET n == ULongToInt(alex_get_bins(S).ret)
    IN  IF range.null THEN Crash(S, NoFrame)
        ELSE Ret(S, [active |-> TRUE, area |-> D(0), cur |-> range.min,
                     step |-> DDiv(alex_range_abs(S, range).ret, D(n))])

\* the loop test: cur <= range->max
alex_integrate_bins_test(fr, range) == DLe(fr.cur, range.max)

\* the loop body: area += step * f(cur); cur += step;
alex_integrate_bins_body(fr, f) ==
    [fr EXCEPT !.area = DAdd(@, DMul(fr.step, UserFunc(f, fr.cur))),
               !.cur = DAdd(@, fr.step)]

\* after the loop: alex_set_flag(ALEX_OK_FLAG); return area;
alex_integrate_bins_exit(S, fr) == Ret(alex_set_flag(S, ALEX_OK_FLAG), fr.area)

\* for (k = 1; k <= subintervals - 1; ++k) mid += range->min + k*head;
RECURSIVE RectMid(_, _, _, _, _)
RectMid(range, head, k, subintervals, mid) ==
    IF k <= subintervals - 1
    THEN RectMid(range, head, k + 1, subintervals,
                 DAdd(mid, DAdd(range.min, DMul(D(k), head))))
    ELSE mid

alex_integrate_rect(S, f, range, subintervals) ==
    IF subintervals < 0
    THEN Ret(alex_set_flag(S, ALEX_INV_PARAM_FLAG), D(0))
    ELSE IF range.null THEN Crash(alex_set_flag(S, ALEX_OK_FLAG), NaN)
    ELSE LET S1 == alex_set_flag(S, ALEX_OK_FLAG)
             head == DSub(range.max, range.min)
             body == DAdd(range.min, range.max)
         IN  IF subintervals = 0
             THEN Ret(S1, DMul(head, UserFunc(f, DDiv(body, D(2)))))
             ELSE LET h == DDiv(head, D(subintervals))
                      mid == RectMid(range, h, 1, subintervals, D(0))
                  IN  Ret(S1, DMul(h, UserFunc(f, DAdd(DDiv(body, D(2)), mid))))

\* the invocations of f by alex_integrate_rect: none when subintervals < 0,
\* otherwise one, at body / 2 (+ mid)
alex_integrate_rect_evals(S, f, range, subintervals) ==
    IF subintervals < 0 THEN <<>>
    ELSE IF range.null THEN <<>>
    ELSE LET head == DSub(range.max, range.min)
             body == DAdd(range.min, range.max)
         IN  IF subintervals = 0
             THEN <<DDiv(body, D(2))>>
             ELSE LET h == DDiv(head, D(subintervals))
                      mid == RectMid(range, h, 1, subintervals, D(0))
                  IN  <<DAdd(DDiv(body, D(2)), mid)>>

\* for (k = 1; k <= subintervals - 1; ++k) mid += f(range->min + k*head);
RECURSIVE TrapMid(_, _, _, _, _, _)
TrapMid(f, range, head, k, subintervals, mid) ==
    IF k <= subintervals - 1
    THEN TrapMid(f, range, head, k + 1, subintervals,
                 DAdd(mid, UserFunc(f, DAdd(range.min, DMul(D(k), head)))))
    ELSE mid

\* alex_integrate_trap with the end points at full weight
alex_integrate_trap_full_ends(S, f, range, subintervals) ==
    IF subintervals < 0
    THEN Ret(alex_set_flag(S, ALEX_INV_PARAM_FLAG), D(0))
    ELSE IF range.null THEN Crash(alex_set_flag(S, ALEX_OK_FLAG), NaN)
    ELSE LET S1 == alex_set_flag(S, ALEX_OK_FLAG)
             head == DSub(range.max, range.min)
             body == DAdd(UserFunc(f, range.min), UserFunc(f, range.max))
         IN  IF subintervals = 0
             THEN Ret(S1, DDiv(DMul(head, body), D(2)))
             ELSE LET h == DDiv(head, D(subintervals))
                      mid == TrapMid(f, range, h, 1, subintervals, D(0))
                  IN  Ret(S1, DMul(h, DAdd(body, mid)))

alex_integrate_trap(S, f, range, subintervals) ==
    IF subintervals < 0
    THEN Ret(alex_set_flag(S, ALEX_INV_PARAM_FLAG), D(0))
    ELSE IF range.null THEN Crash(alex_set_flag(S, ALEX_OK_FLAG), NaN)
    ELSE LET S1 == alex_set_flag(S, ALEX_OK_FLAG)
             head == DSub(range.max, range.min)
             body == DAdd(UserFunc(f, range.min), UserFunc(f, range.max))
         IN  IF subintervals = 0
             THEN Ret(S1, DDiv(DMul(head, body), D(2)))
             ELSE LET h == DDiv(head, D(subintervals))
                      mid == TrapMid(f, range, h, 1, subintervals, D(0))
                  IN  Ret(S1, DMul(h, DAdd(DDiv(body, D(2)), mid)))

RECURSIVE TrapMidEvals(_, _, _, _)
TrapMidEvals(range, head, k, subintervals) ==
    IF k <= subintervals - 1
    THEN <<DAdd(range.min, DMul(D(k), head))>>
             \o TrapMidEvals(range, head, k + 1, subintervals)
    ELSE <<>>

\* the invocations of f by alex_integrate_trap: none when subintervals < 0,
\* otherwise f(min), f(max) and the inner points of the loop
alex_integrate_trap_evals(S, f, range, subintervals) ==
    IF subintervals < 0 THEN <<>>
    ELSE IF range.null THEN <<>>
    ELSE LET head == DSub(range.max, range.min)
         IN  IF subintervals = 0
             THEN <<range.min, range.max>>
             ELSE <<range.min, range.max>>
                      \o TrapMidEvals(range, DDiv(head, D(subintervals)), 1, subintervals)

-----------------------------------------------------------------------------
(* poly.c *)

\* mem1 and mem2 are the answers of malloc(sizeof(alex_poly)) and of
\* calloc(deg + 1, sizeof(double)); src holds the caller's coeffs[0..].
alex_make_poly(S, deg, src, mem1, mem2) ==
    IF ~mem1
    THEN Ret(alex_set_flag(S, ALEX_BAD_ALLOC_FLAG), NULL)
    ELSE LET poly == Alloc(S)
             S1 == [S EXCEPT !.heap[poly] = PolyBlock(deg, NULL)]
         IN  IF ~mem2
             THEN Ret(alex_set_flag(S1, ALEX_BAD_ALLOC_FLAG), NULL)
             ELSE LET c == Alloc(S1)
                      S2 == [S1 EXCEPT
                                !.heap[poly] = PolyBlock(deg, c),
                                !.heap[c] = ArrayBlock([i \in 1..(deg + 1) |-> src[i]])]
                  IN  Ret(alex_set_flag(S2, ALEX_OK_FLAG), poly)

\* alex_free_poly that leaves pub_poly as it is
alex_free_poly_keeping_slot(S, poly) ==
    IF poly = NULL
    THEN Ret(alex_set_flag(S, ALEX_INV_PARAM_FLAG), NoRet)
    ELSE Ret(alex_set_flag(Free(Free(S, S.heap[poly].coeffs), poly), ALEX_OK_FLAG), NoRet)

alex_free_poly(S, poly) ==
    IF poly = NULL
    THEN Ret(alex_set_flag(S, ALEX_INV_PARAM_FLAG), NoRet)
    ELSE LET S1 == IF poly = S.pub_poly THEN [S EXCEPT !.pub_poly = NULL] ELSE S
             S2 == Free(Free(S1, S1.heap[poly].coeffs), poly)
         IN  Ret(alex_set_flag(S2, ALEX_OK_FLAG), NoRet)

\* One term of the printed polynomial: the sign token, the absolute value
\* of the coefficient under the format, and the power.
PrintTerm(c, format, i) ==
    [sign |-> IF DLt(c, D(0)) THEN "- " ELSE "+ ",
     format |-> format,
     abs |-> DAbs(c),
     pow |-> i]

\* dest is the text already in the buffer, as a sequence of terms
alex_poly_printf(S, poly, dest, format) ==
    IF poly = NULL THEN Crash(S, dest)
    ELSE Ret(S, dest \o [i \in 1..(S.heap[poly].deg + 1) |->
                            PrintTerm(CoeffsOf(S, poly)[i], format, i - 1)])

alex_poly_print(S, poly, dest) == alex_poly_printf(S, poly, dest, "%g")

alex_poly_deg(S, poly) ==
    IF poly = NULL
    THEN Ret(alex_set_flag(S, ALEX_INV_PARAM_FLAG), 0)
    ELSE Ret(alex_set_flag(S, ALEX_OK_FLAG), S.heap[poly].deg)

alex_poly_lead(S, poly) ==
    IF poly = NULL
    THEN Ret(alex_set_flag(S, ALEX_INV_PARAM_FLAG), D(0))
    ELSE Ret(alex_set_flag(S, ALEX_OK_FLAG), CoeffsOf(S, poly)[S.heap[poly].deg + 1])

alex_poly_trail(S, poly) ==
    IF poly = NULL
    THEN Ret(alex_set_flag(S, ALEX_INV_PARAM_FLAG), D(0))
    ELSE Ret(alex_set_flag(S, ALEX_OK_FLAG), CoeffsOf(S, poly)[1])

\* return poly->deg == 0;
alex_poly_isconst(S, poly) ==
    IF poly = NULL
    THEN Ret(alex_set_flag(S, ALEX_INV_PARAM_FLAG), 0)
    ELSE Ret(alex_set_flag(S, ALEX_OK_FLAG), IF S.heap[poly].deg = 0 THEN 1 ELSE 0)

alex_poly_coeff(S, poly, index) ==
    IF poly = NULL THEN Crash(S, NaN)
    ELSE IF index > S.heap[poly].deg
    THEN alex_poly_lead(alex_set_flag(S, ALEX_POLY_INDEX_GT_DEG_FLAG), poly)
    ELSE Ret(alex_set_flag(S, ALEX_OK_FLAG), CoeffsOf(S, poly)[index + 1])

\* m * m
BSquare(m) == CHOOSE r \in {BMul(a, a) : a \in {m}} : TRUE

\* m^i for i >= 1
RECURSIVE BPow(_, _)
BPow(m, i) ==
    IF i = 1 THEN m
    ELSE IF i % 2 = 0 THEN BSquare(BPow(m, i \div 2))
    ELSE BMul(m, BSquare(BPow(m, i \div 2)))

\* the doubles that pow of the C library may return for the exact power
\* s * M * 2^E (M # 0).  Its error stays below 0.54 units in the last place
\* (sysdeps/ieee754/dbl-64/e_pow.c), so that a power that is a double is
\* returned as it is, a power within 1/16 of a unit of the middle between two
\* doubles comes back as either of them, and any other power as the nearer
\* one; a power of 2^MaxExp or more is an infinity.  sixteenths is the part
\* of the power below the last place, in sixteenths of a unit, rounded down.
DNear(s, M, E) ==
    LET sh == Max(BitLen(M) - MantBits, MinExp - E)
        bit(j) == IF j < 0 THEN 0 ELSE BBit(M, j)
        sixteenths == 8 * bit(sh - 1) + 4 * bit(sh - 2) + 2 * bit(sh - 3) + bit(sh - 4)
        below == IF sixteenths <= 8 THEN {BShr(M, sh)} ELSE {}
        above == IF sixteenths >= 7 THEN {BAddC(BShr(M, sh), <<>>, 1)} ELSE {}
    IN  IF sh <= 0 \/ BLowZero(M, sh) THEN {DRound(s, M, E)}
        ELSE IF BitLen(M) + E > MaxExp THEN {Inf(s)}
        ELSE {DPack(s, q, E + sh) : q \in below \cup above}

\* a power function with pow(0, i) = 0 for every i, i = 0 included
DPowZero(x, i) ==
    IF x.k = "nan" THEN (IF i = 0 THEN {D(1)} ELSE {NaN})
    ELSE IF DIsZero(x) THEN {DZero(1)}
    ELSE IF i = 0 THEN {D(1)}
    ELSE LET s == IF x.s = -1 /\ i % 2 = 1 THEN -1 ELSE 1
         IN  IF x.k = "inf" THEN {Inf(s)}
             ELSE DNear(s, BPow(x.m, i), x.e * i)

\* the values pow(x, i) may have for an integer i >= 0 (libm): pow(x, 0) is
\* 1 for every x, a nan included; for i >= 1 the power is negative for a
\* negative x (-0 and -inf included) and an odd i.  pow is not correctly
\* rounded: a power that is a double is returned as it is, any other power
\* comes back as one of the two doubles next to it.
DPow(x, i) ==
    IF i = 0 THEN {D(1)}
    ELSE IF x.k = "nan" THEN {NaN}
    ELSE LET s == IF x.s = -1 /\ i % 2 = 1 THEN -1 ELSE 1
         IN  IF x.k = "inf" THEN {Inf(s)}
             ELSE IF DIsZero(x) THEN {DZero(s)}
             ELSE DNear(s, BPow(x.m, i), x.e * i)

\* for (i = 0; i < poly->deg + 1; ++i) res += poly->coeffs[i] * pow(x, i);
\* the values res may end with, one for every choice of the values of pow
RECURSIVE EvalLoop(_, _, _, _)
EvalLoop(c, x, i, res) ==
    IF i < Len(c)
    THEN UNION {EvalLoop(c, x, i + 1, DAdd(res, DMul(c[i + 1], p))) : p \in DPow(x, i)}
    ELSE {res}

\* the outcomes of alex_poly_eval(poly, x)
alex_poly_eval(S, poly, x) ==
    IF poly = NULL THEN {Crash(S, NaN)}
    ELSE {Ret(alex_set_flag(S, ALEX_OK_FLAG), v) : v \in EvalLoop(CoeffsOf(S, poly), x, 0, D(0))}

\* alex_poly_diff without the factor i + 1
alex_poly_diff_unscaled(S, poly, mem1, mem2, mem3) ==
    IF poly = NULL THEN Crash(S, NULL)
    ELSE IF ~mem1 THEN Ret(alex_set_flag(S, ALEX_BAD_ALLOC_FLAG), NULL)
    ELSE LET deg == S.heap[poly].deg
             coeffs == Alloc(S)
         IN  IF deg = 0
             THEN LET S1 == [S EXCEPT !.heap[coeffs] = ArrayBlock(<<D(0)>>)]
                  IN  alex_make_poly(S1, 0, S1.heap[coeffs].data, mem2, mem3)
             ELSE LET S1 == [S EXCEPT !.heap[coeffs] =
                                ArrayBlock([i \in 1..deg |-> CoeffsOf(S, poly)[i + 1]])]
                      diff == alex_make_poly(S1, deg - 1, S1.heap[coeffs].data, mem2, mem3)
                  IN  IF diff.ret = NULL THEN diff
                      ELSE Ret(alex_set_flag(diff.S, ALEX_OK_FLAG), diff.ret)

\* mem1 is the answer of the malloc / calloc of the local coeffs buffer,
\* mem2 and mem3 those of the two allocations of alex_make_poly.  The local
\* buffer is not freed.
alex_poly_diff(S, poly, mem1, mem2, mem3) ==
    IF poly = NULL THEN Crash(S, NULL)
    ELSE IF ~mem1 THEN Ret(alex_set_flag(S, ALEX_BAD_ALLOC_FLAG), NULL)
    ELSE LET deg == S.heap[poly].deg
             coeffs == Alloc(S)
         IN  IF deg = 0
             THEN LET S1 == [S EXCEPT !.heap[coeffs] = ArrayBlock(<<D(0)>>)]
                  IN  alex_make_poly(S1, 0, S1.heap[coeffs].data, mem2, mem3)
             ELSE LET S1 == [S EXCEPT !.heap[coeffs] =
                                ArrayBlock([i \in 1..deg |->
                                    DMul(CoeffsOf(S, poly)[i + 1], D(i))])]
                      diff == alex_make_poly(S1, deg - 1, S1.heap[coeffs].data, mem2, mem3)
                  IN  IF diff.ret = NULL THEN diff
                      ELSE Ret(alex_set_flag(diff.S, ALEX_OK_FLAG), diff.ret)

\* alex_poly_integ that leaves coeffs[0] at the 0 of calloc
alex_poly_integ_no_constant(S, poly, c, mem1, mem2, mem3) ==
    IF poly = NULL
    THEN Ret(alex_set_flag(S, ALEX_INV_PARAM_FLAG), NULL)
    ELSE IF ~mem1 THEN Ret(alex_set_flag(S, ALEX_BAD_ALLOC_FLAG), NULL)
    ELSE LET deg == S.heap[poly].deg
             coeffs == Alloc(S)
             S1 == [S EXCEPT !.heap[coeffs] =
                       ArrayBlock([i \in 1..(deg + 2) |->
                           IF i = 1 THEN D(0)
                           ELSE DDiv(CoeffsOf(S, poly)[i - 1], D(i - 1))])]
             integ == alex_make_poly(S1, deg + 1, S1.heap[coeffs].data, mem2, mem3)
         IN  IF integ.ret = NULL THEN integ
             ELSE Ret(alex_set_flag(integ.S, ALEX_OK_FLAG), integ.ret)

\* alex_poly_integ without the division by i + 1
alex_poly_integ_undivided(S, poly, c, mem1, mem2, mem3) ==
    IF poly = NULL
    THEN Ret(alex_set_flag(S, ALEX_INV_PARAM_FLAG), NULL)
    ELSE IF ~mem1 THEN Ret(alex_set_flag(S, ALEX_BAD_ALLOC_FLAG), NULL)
    ELSE LET deg == S.heap[poly].deg
             coeffs == Alloc(S)
             S1 == [S EXCEPT !.heap[coeffs] =
                       ArrayBlock([i \in 1..(deg + 2) |->
                           IF i = 1 THEN c ELSE CoeffsOf(S, poly)[i - 1]])]
             integ == alex_make_poly(S1, deg + 1, S1.heap[coeffs].data, mem2, mem3)
         IN  IF integ.ret = NULL THEN integ
             ELSE Ret(alex_set_flag(integ.S, ALEX_OK_FLAG), integ.ret)

alex_poly_integ(S, poly, c, mem1, mem2, mem3) ==
    IF poly = NULL
    THEN Ret(alex_set_flag(S, ALEX_INV_PARAM_FLAG), NULL)
    ELSE IF ~mem1 THEN Ret(alex_set_flag(S, ALEX_BAD_ALLOC_FLAG), NULL)
    ELSE LET deg == S.heap[poly].deg
             coeffs == Alloc(S)
             S1 == [S EXCEPT !.heap[coeffs] =
                       ArrayBlock([i \in 1..(deg + 2) |->
                           IF i = 1 THEN c
                           ELSE DDiv(CoeffsOf(S, poly)[i - 1], D(i - 1))])]
             integ == alex_make_poly(S1, deg + 1, S1.heap[coeffs].data, mem2, mem3)
         IN  IF integ.ret = NULL THEN integ
             ELSE Ret(alex_set_flag(integ.S, ALEX_OK_FLAG), integ.ret)

\* alex_poly_integ_range with the two evaluations exchanged
alex_poly_integ_range_swapped(S, poly, range, mem1, mem2, mem3) ==
    IF range.null
    THEN {Ret(alex_set_flag(S, ALEX_INV_PARAM_FLAG), D(0))}
    ELSE Bind(alex_poly_integ(S, poly, D(0), mem1, mem2, mem3), LAMBDA integ :
         IF integ.ret = NULL THEN {Ret(integ.S, D(0))}
         ELSE UNION {{Ret(alex_set_flag(alex_free_poly(lo.S, integ.ret).S, ALEX_OK_FLAG),
                          DSub(lo.ret, hi.ret)) :
                         lo \in alex_poly_eval(hi.S, integ.ret, range.min)} :
                    hi \in alex_poly_eval(integ.S, integ.ret, range.max)})

\* alex_poly_integ(poly, 0.) with the answers mem1..mem3 of its allocations,
\* the two evaluations, alex_free_poly of the antiderivative: the outcomes,
\* one for every pair of values the evaluations may have
alex_poly_integ_range(S, poly, range, mem1, mem2, mem3) ==
    IF range.null
    THEN {Ret(alex_set_flag(S, ALEX_INV_PARAM_FLAG), D(0))}
    ELSE Bind(alex_poly_integ(S, poly, D(0), mem1, mem2, mem3), LAMBDA integ :
         IF integ.ret = NULL THEN {Ret(integ.S, D(0))}
         ELSE UNION {{Ret(alex_set_flag(alex_free_poly(lo.S, integ.ret).S, ALEX_OK_FLAG),
                          DSub(hi.ret, lo.ret)) :
                         lo \in alex_poly_eval(hi.S, integ.ret, range.min)} :
                    hi \in alex_poly_eval(integ.S, integ.ret, range.max)})

\* alex_func_1d values: NULL, or the address of the static function _poly_func
NULL_FUNC == [fn |-> "NULL"]
FuncPtr(name) == [fn |-> name]

\* static double _poly_func(double x): the slot is evaluated, whatever it holds
_poly_func(S, x) == alex_poly_eval(S, S.pub_poly, x)

\* alex_poly_func that fills the slot only while it is empty
alex_poly_func_first(S, poly) ==
    IF poly = NULL
    THEN Ret(alex_set_flag(S, ALEX_INV_PARAM_FLAG), NULL_FUNC)
    ELSE Ret(alex_set_flag(IF S.pub_poly = NULL THEN [S EXCEPT !.pub_poly = poly] ELSE S,
                           ALEX_OK_FLAG),
             FuncPtr("_poly_func"))

alex_poly_func(S, poly) ==
    IF poly = NULL
    THEN Ret(alex_set_flag(S, ALEX_INV_PARAM_FLAG), NULL_FUNC)
    ELSE Ret(alex_set_flag([S EXCEPT !.pub_poly = poly], ALEX_OK_FLAG),
             FuncPtr("_poly_func"))

\* for (i = 0; i <= p->deg; ++i) if (p->coeffs[i] != q->coeffs[i]) return p->deg + 1 - i;
RECURSIVE CmpLoop(_, _, _, _)
CmpLoop(pc, qc, deg, i) ==
    IF i <= deg
    THEN IF ~DEq(pc[i + 1], qc[i + 1]) THEN deg + 1 - i
         ELSE CmpLoop(pc, qc, deg, i + 1)
    ELSE 0

\* alex_poly_cmp with the difference of the degrees taken as a plain integer
alex_poly_cmp_abs(S, p, q) ==
    IF p = NULL \/ q = NULL
    THEN Ret(alex_set_flag(S, ALEX_INV_PARAM_FLAG), 0)
    ELSE LET S1 == alex_set_flag(S, ALEX_OK_FLAG)
         IN  IF S.heap[p].deg # S.heap[q].deg
             THEN Ret(S1, Abs(S.heap[p].deg - S.heap[q].deg))
             ELSE Ret(S1, CmpLoop(CoeffsOf(S, p), CoeffsOf(S, q), S.heap[p].deg, 0))

\* p->deg - q->deg is an unsigned difference, returned as int
alex_poly_cmp(S, p, q) ==
    IF p = NULL \/ q = NULL
    THEN Ret(alex_set_flag(S, ALEX_INV_PARAM_FLAG), 0)
    ELSE LET S1 == alex_set_flag(S, ALEX_OK_FLAG)
         IN  IF S.heap[p].deg # S.heap[q].deg
             THEN Ret(S1, ToInt(USub(UFromNat(S.heap[p].deg, NLimbs(IntBits)),
                                     UFromNat(S.heap[q].deg, NLimbs(IntBits)))))
             ELSE Ret(S1, CmpLoop(CoeffsOf(S, p), CoeffsOf(S, q), S.heap[p].deg, 0))

\* alex_poly_cpy that shares the coefficient array of the source
alex_poly_cpy_shallow(S, poly, mem1, mem2) ==
    IF poly = NULL
    THEN Ret(alex_set_flag(S, ALEX_INV_PARAM_FLAG), NULL)
    ELSE LET poly_cpy == Alloc(S)
             S1 == [S EXCEPT !.heap[poly_cpy] =
                       PolyBlock(S.heap[poly].deg, S.heap[poly].coeffs)]
         IN  Ret(alex_set_flag(S1, ALEX_OK_FLAG), poly_cpy)

alex_poly_cpy(S, poly, mem1, mem2) ==
    IF poly = NULL
    THEN Ret(alex_set_flag(S, ALEX_INV_PARAM_FLAG), NULL)
    ELSE LET poly_cpy == alex_make_poly(S, S.heap[poly].deg, CoeffsOf(S, poly), mem1, mem2)
         IN  IF poly_cpy.ret = NULL THEN poly_cpy
             ELSE Ret(alex_set_flag(poly_cpy.S, ALEX_OK_FLAG), poly_cpy.ret)

-----------------------------------------------------------------------------
(* algebra.c *)

\* while(1) { r = m % n; if (r == 0) return n; m = n; n = r; }
\* A remainder modulo 0 traps.
RECURSIVE GcdLoop(_, _, _)
GcdLoop(S, m, n) ==
    IF n = 0 THEN Crash(S, 0)
    ELSE IF m % n = 0 THEN Ret(S, n)
    ELSE GcdLoop(S, n, m % n)

\* alex_gcd without the exchange of m and n
alex_gcd_unordered(S, m, n) ==
    IF m = 0 /\ n = 0
    THEN Ret(alex_set_flag(S, ALEX_ALG_INV_OP_FLAG), 0)
    ELSE GcdLoop(alex_set_flag(S, ALEX_OK_FLAG), m, n)

alex_gcd(S, m, n) ==
    IF m = 0 /\ n = 0
    THEN Ret(alex_set_flag(S, ALEX_ALG_INV_OP_FLAG), 0)
    ELSE IF n < m
    THEN GcdLoop(alex_set_flag(S, ALEX_OK_FLAG), n, m)
    ELSE GcdLoop(alex_set_flag(S, ALEX_OK_FLAG), m, n)

\* m*n/alex_gcd(m,n): an unsigned int product, which wraps, divided by the
\* gcd, which is not 0 here (m and n are not both 0).  The value returned is
\* an unsigned int, kept as its limbs.
alex_lcm(S, m, n) ==
    LET S1 == alex_set_flag(S, ALEX_OK_FLAG)
    IN  IF m = 0 /\ n = 0 THEN Ret(S1, UZero(IntBits))
        ELSE LET g == alex_gcd(S1, m, n)
                 prod == UMul(UFromNat(m, NLimbs(IntBits)), UFromNat(n, NLimbs(IntBits)))
             IN  IF g.crashed THEN Crash(g.S, UZero(IntBits))
                 ELSE Ret(g.S, UDiv(prod, UFromNat(g.ret, NLimbs(IntBits))))

-----------------------------------------------------------------------------
(* The state machine *)

Init ==
    /\ flag = ALEX_OK_FLAG
    /\ dx_step = ALEX_DEFAULT_DX
    /\ nbins = ULong(ALEX_DEFAULT_NBINS)
    /\ heap = [a \in Addr |-> FreeBlock]
    /\ pub_poly = NULL
    /\ alive = TRUE
    /\ frame = NoFrame
    /\ held = FALSE
    /\ last = [op |-> "none", args |-> <<>>, ret |-> NoRet, status |-> "returned",
               evals |-> <<>>]

\* no call is running
Idle == alive /\ frame = NoFrame

\* the call op(args) runs from entry to exit and ends with the outcome of
\* call, having invoked the caller's function with the arguments passed, in
\* this order; the outcome is computed once
DoF(op, args, call, passed) ==
    /\ Idle
    /\ \E r \in {call}, evals \in {passed} :
        /\ flag' = r.S.flag
        /\ dx_step' = r.S.dx_step
        /\ nbins' = r.S.nbins
        /\ heap' = r.S.heap
        /\ pub_poly' = r.S.pub_poly
        /\ alive' = ~r.crashed
        /\ frame' = NoFrame
        /\ held' = IF op = "alex_poly_func" THEN (held \/ r.ret # NULL_FUNC) ELSE held
        /\ last' = [op |-> op, args |-> args, ret |-> r.ret,
                    status |-> IF r.crashed THEN "crashed" ELSE "returned",
                    evals |-> evals]

\* a call of a function that takes no function argument
Do(op, args, call) == DoF(op, args, call, <<>>)

Fact == \E x \in 0..MaxFactArg : Do("alex_fact", <<x>>, alex_fact(St, x))

Factl == \E x \in 0..MaxFactArg : Do("alex_factl", <<x>>, alex_factl(St, x))

BinomCoeff ==
    \E m, n \in 0..MaxBinomArg :
        \E r \in alex_binom_coeff(St, m, n) : Do("alex_binom_coeff", <<m, n>>, r)

BinomCoeffl ==
    \E m, n \in 0..MaxBinomArg :
        \E r \in alex_binom_coeffl(St, m, n) : Do("alex_binom_coeffl", <<m, n>>, r)

\* the bin counts alex_set_bins is called with: 0..MaxBins, and three that
\* an int does not hold: 2^31, 2^32 and 2^32 + 1
BinCounts ==
    {ULong(n) : n \in 0..MaxBins}
        \cup {[i \in 1..NLimbs(LongBits) |-> IF i = NLimbs(IntBits) THEN Base \div 2 ELSE 0],
              UZero(IntBits) \o UOne(IntBits),
              UOne(IntBits) \o UOne(IntBits)}

SetBins == \E n \in BinCounts : Do("alex_set_bins", <<n>>, alex_set_bins(St, n))

GetBins == Do("alex_get_bins", <<>>, alex_get_bins(St))

MakeRange ==
    \E min, max \in DVals, mem \in MallocOutcomes :
        Do("alex_make_range", <<min, max>>, alex_make_range(St, min, max, mem))

\* the ranges a caller holds: ranges alex_make_range hands out (min <= max)
RangeEnds == {D(n) : n \in 0..MaxRangeEnd}
RangeArgs == {r \in {Range(min, max) : min, max \in RangeEnds} : DLe(r.min, r.max)}

RangeAbs == \E r \in RangeArgs : Do("alex_range_abs", <<r>>, alex_range_abs(St, r))

SetDx == \E dx \in DVals : Do("alex_set_dx", <<dx>>, alex_set_dx(St, dx))

GetDx == Do("alex_get_dx", <<>>, alex_get_dx(St))

NextCalc == SetBins \/ GetBins \/ MakeRange \/ RangeAbs \/ SetDx \/ GetDx

SpecCalc == Init /\ [][NextCalc]_vars

NextFunc == Fact \/ Factl \/ BinomCoeff \/ BinomCoeffl

SpecFunc == Init /\ [][NextFunc]_vars

SecantMethod ==
    \E f \in UserFuncs, r \in RangeArgs, n \in 0..MaxIterations :
        DoF("alex_secant_method", <<f, r, n>>, alex_secant_method(St, f, r, n),
            alex_secant_method_evals(St, f, r, n))

Diff ==
    \E f \in UserFuncs, x \in DVals :
        DoF("alex_diff", <<f, x>>, alex_diff(St, f, x), alex_diff_evals(St, f, x))

\* alex_integrate_bins is entered.  With n the stored count converted to
\* int, the calls followed are those with n in 0..MaxBins, and those with
\* n < 0 on a range with min = max, where the step is -0 and every pass leaves
\* cur and area as they are.  Left out are the calls whose loop is too long
\* to follow: n > MaxBins, and n < 0 with min < max, where the step is
\* negative and cur goes down without end.
IntegrateBinsCall ==
    \E f \in UserFuncs, r \in RangeArgs \cup {NULL_RANGE} :
        LET e == alex_integrate_bins_enter(St, r)
            n == ULongToInt(nbins)
        IN  /\ Idle
            /\ n \in 0..MaxBins \/ (n < 0 /\ ~DLt(r.min, r.max))
            /\ frame' = e.ret
            /\ alive' = ~e.crashed
            /\ last' = [op |-> "alex_integrate_bins", args |-> <<f, r>>,
                        ret |-> D(0),
                        status |-> IF e.crashed THEN "crashed" ELSE "running",
                        evals |-> <<>>]
            /\ UNCHANGED <<flag, dx_step, nbins, heap, pub_poly, held>>

\* the invocations of f that a call of alex_integrate_bins records: a call
\* that returns makes no more
MaxEvals == MaxBins + 1

\* one iteration of its loop: f is invoked at cur.  The record last.evals
\* keeps the first MaxEvals invocations of a call.
IntegrateBinsStep ==
    /\ alive /\ frame.active
    /\ alex_integrate_bins_test(frame, last.args[2])
    /\ frame' = alex_integrate_bins_body(frame, last.args[1])
    /\ last' = [last EXCEPT !.evals = IF Len(@) < MaxEvals
                                      THEN Append(@, frame.cur) ELSE @]
    /\ UNCHANGED <<flag, dx_step, nbins, heap, pub_poly, alive, held>>

\* the loop is left and the call returns
IntegrateBinsReturn ==
    /\ alive /\ frame.active
    /\ ~alex_integrate_bins_test(frame, last.args[2])
    /\ LET r == alex_integrate_bins_exit(St, frame)
       IN  /\ flag' = r.S.flag
           /\ last' = [last EXCEPT !.ret = r.ret, !.status = "returned"]
    /\ frame' = NoFrame
    /\ UNCHANGED <<dx_step, nbins, heap, pub_poly, alive, held>>

\* the subinterval counts the rules are called with
Subintervals == (-1..MaxCount) \cup {LargeCount}

IntegrateRect ==
    \E f \in UserFuncs, r \in RangeArgs, n \in Subintervals :
        DoF("alex_integrate_rect", <<f, r, n>>, alex_integrate_rect(St, f, r, n),
            alex_integrate_rect_evals(St, f, r, n))

IntegrateTrap ==
    \E f \in UserFuncs, r \in RangeArgs, n \in Subintervals :
        DoF("alex_integrate_trap", <<f, r, n>>, alex_integrate_trap(St, f, r, n),
            alex_integrate_trap_evals(St, f, r, n))

NextNumeric ==
    \/ SecantMethod \/ Diff \/ IntegrateRect \/ IntegrateTrap
    \/ IntegrateBinsCall \/ IntegrateBinsStep \/ IntegrateBinsReturn

\* the coefficient arrays callers pass to alex_make_poly
CoefVals == {D(n) : n \in -1..MaxCoef}
CoefArrays(deg) == [1..(deg + 1) -> CoefVals]

\* the polynomial pointers callers pass: a live polynomial or NULL
PolyArgs == LivePolys(St) \cup {NULL}

\* there are n free blocks: the allocations of the call can be answered
Room(n) == Cardinality(FreeAddrs(St)) >= n

MakePoly ==
    \E deg \in 0..MaxDeg :
        \E src \in CoefArrays(deg), mem1, mem2 \in MallocOutcomes :
            /\ Room(2)
            /\ Do("alex_make_poly", <<deg, src>>, alex_make_poly(St, deg, src, mem1, mem2))

FreePoly ==
    \E poly \in PolyArgs : Do("alex_free_poly", <<poly>>, alex_free_poly(St, poly))

PolyPrintf ==
    \E poly \in PolyArgs, format \in {"%g", "%f"} :
        Do("alex_poly_printf", <<poly, <<>>, format>>,
           alex_poly_printf(St, poly, <<>>, format))

PolyPrint ==
    \E poly \in PolyArgs :
        Do("alex_poly_print", <<poly, <<>>>>, alex_poly_print(St, poly, <<>>))

PolyDeg ==
    \E poly \in PolyArgs : Do("alex_poly_deg", <<poly>>, alex_poly_deg(St, poly))

PolyLead ==
    \E poly \in PolyArgs : Do("alex_poly_lead", <<poly>>, alex_poly_lead(St, poly))

PolyCoeff ==
    \E poly \in PolyArgs, index \in 0..MaxIndex :
        Do("alex_poly_coeff", <<poly, index>>, alex_poly_coeff(St, poly, index))

PolyEval ==
    \E poly \in PolyArgs, x \in DVals :
        \E r \in alex_poly_eval(St, poly, x) : Do("alex_poly_eval", <<poly, x>>, r)

PolyDiff ==
    \E poly \in PolyArgs, mem1, mem2, mem3 \in MallocOutcomes :
        /\ Room(3)
        /\ Do("alex_poly_diff", <<poly>>, alex_poly_diff(St, poly, mem1, mem2, mem3))

PolyInteg ==
    \E poly \in PolyArgs, c \in CoefVals, mem1, mem2, mem3 \in MallocOutcomes :
        /\ Room(3)
        /\ Do("alex_poly_integ", <<poly, c>>,
              alex_poly_integ(St, poly, c, mem1, mem2, mem3))

\* making, releasing, printing and reading polynomials
NextPoly ==
    \/ MakePoly \/ FreePoly \/ PolyPrintf \/ PolyPrint \/ PolyDeg \/ PolyLead
    \/ PolyCoeff \/ PolyEval

SpecPoly == Init /\ [][NextPoly]_vars

\* the coefficients {1., 2., 3., 4.} of the polynomial of the documentation
DocCoeffs == <<D(1), D(2), D(3), D(4)>>

\* alex_make_poly(3, {1., 2., 3., 4.})
MakePolyDoc ==
    \E mem1, mem2 \in MallocOutcomes :
        /\ Room(2)
        /\ Do("alex_make_poly", <<Len(DocCoeffs) - 1, DocCoeffs>>,
              alex_make_poly(St, Len(DocCoeffs) - 1, DocCoeffs, mem1, mem2))

PolyIntegRange ==
    \E poly \in PolyArgs, r \in RangeArgs \cup {NULL_RANGE},
       mem1, mem2, mem3 \in MallocOutcomes :
        /\ Room(3)
        /\ \E o \in alex_poly_integ_range(St, poly, r, mem1, mem2, mem3) :
               Do("alex_poly_integ_range", <<poly, r>>, o)

PolyCmp ==
    \E p, q \in PolyArgs : Do("alex_poly_cmp", <<p, q>>, alex_poly_cmp(St, p, q))

PolyCpy ==
    \E poly \in PolyArgs, mem1, mem2 \in MallocOutcomes :
        /\ Room(2)
        /\ Do("alex_poly_cpy", <<poly>>, alex_poly_cpy(St, poly, mem1, mem2))

\* making, differentiating, integrating, comparing and copying polynomials
NextPolyCalc ==
    \/ MakePoly \/ MakePolyDoc \/ FreePoly \/ PolyDiff \/ PolyInteg
    \/ PolyIntegRange \/ PolyCmp \/ PolyCpy

SpecPolyCalc == Init /\ [][NextPolyCalc]_vars

\* evaluating polynomials
NextEval == MakePoly \/ MakePolyDoc \/ FreePoly \/ PolyEval

SpecEval == Init /\ [][NextEval]_vars

\* the blocks of the heap of SpecRoundTrip: room for a polynomial, its
\* antiderivative and the derivative of that
RoundTripBlocks == MaxBlocks + 3

\* the caller has made one polynomial, in a heap of RoundTripBlocks blocks
InitRoundTrip ==
    \E deg \in 0..MaxDeg :
        \E src \in CoefArrays(deg) :
            LET S  == [flag |-> ALEX_OK_FLAG, dx_step |-> ALEX_DEFAULT_DX,
                       nbins |-> ULong(ALEX_DEFAULT_NBINS),
                       heap |-> [a \in 1..RoundTripBlocks |-> FreeBlock],
                       pub_poly |-> NULL]
                r == alex_make_poly(S, deg, src, TRUE, TRUE)
            IN  /\ flag = r.S.flag
                /\ dx_step = r.S.dx_step
                /\ nbins = r.S.nbins
                /\ heap = r.S.heap
                /\ pub_poly = r.S.pub_poly
                /\ alive = TRUE
                /\ frame = NoFrame
                /\ held = FALSE
                /\ last = [op |-> "alex_make_poly", args |-> <<deg, src>>,
                           ret |-> r.ret, status |-> "returned", evals |-> <<>>]

\* integrating a polynomial and differentiating the result
NextRoundTrip == PolyInteg \/ PolyDiff \/ PolyCmp

SpecRoundTrip == InitRoundTrip /\ [][NextRoundTrip]_vars

PolyTrail ==
    \E poly \in PolyArgs : Do("alex_poly_trail", <<poly>>, alex_poly_trail(St, poly))

PolyIsconst ==
    \E poly \in PolyArgs : Do("alex_poly_isconst", <<poly>>, alex_poly_isconst(St, poly))

\* the operations that take a polynomial
NextPolyOps ==
    \/ MakePoly \/ FreePoly \/ PolyDeg \/ PolyCoeff \/ PolyEval \/ PolyDiff
    \/ PolyInteg \/ PolyLead \/ PolyTrail \/ PolyIsconst \/ PolyCmp \/ PolyCpy
    \/ PolyPrintf

\* the blocks of the heap of SpecPolyOps: room for a polynomial and a copy
\* of it
PolyOpsBlocks == MaxBlocks - 1

\* the state after construction, in a heap of PolyOpsBlocks blocks
InitPolyOps ==
    /\ flag = ALEX_OK_FLAG
    /\ dx_step = ALEX_DEFAULT_DX
    /\ nbins = ULong(ALEX_DEFAULT_NBINS)
    /\ heap = [a \in 1..PolyOpsBlocks |-> FreeBlock]
    /\ pub_poly = NULL
    /\ alive = TRUE
    /\ frame = NoFrame
    /\ held = FALSE
    /\ last = [op |-> "none", args |-> <<>>, ret |-> NoRet, status |-> "returned",
               evals |-> <<>>]

SpecPolyOps == InitPolyOps /\ [][NextPolyOps]_vars

PolyFunc ==
    \E poly \in PolyArgs : Do("alex_poly_func", <<poly>>, alex_poly_func(St, poly))

\* the caller invokes the function alex_poly_func has handed out
PolyFuncCall ==
    \E x \in DVals :
        /\ held
        /\ \E r \in _poly_func(St, x) : Do("_poly_func", <<x>>, r)

\* polynomials used through the adapter
NextAdapter == MakePoly \/ FreePoly \/ PolyFunc \/ PolyFuncCall

SpecAdapter == Init /\ [][NextAdapter]_vars

GcdCall ==
    \E m, n \in 0..MaxGcdArg : Do("alex_gcd", <<m, n>>, alex_gcd(St, m, n))

NextAlgebra == GcdCall

\* the arguments alex_lcm is called with
LcmArgs == (0..MaxLcmArg) \cup {LargeLcmArg}

LcmCall ==
    \E m, n \in LcmArgs : Do("alex_lcm", <<m, n>>, alex_lcm(St, m, n))

\* algebra.c
NextArith == GcdCall \/ LcmCall

SpecAlgebra == Init /\ [][NextArith]_vars

\* alex_integrate_bins with the calls that set its bin count and make its
\* ranges; a call that has been entered keeps running: its loop test is
\* taken again and again
NextBins ==
    \/ SetBins \/ MakeRange
    \/ IntegrateBinsCall \/ IntegrateBinsStep \/ IntegrateBinsReturn

SpecBins ==
    /\ Init /\ [][NextBins]_vars
    /\ WF_vars(IntegrateBinsStep) /\ WF_vars(IntegrateBinsReturn)

\* the root finder and the two integration rules
NextRules == SecantMethod \/ IntegrateRect \/ IntegrateTrap

SpecRules == Init /\ [][NextRules]_vars

\* the numeric routines that run in one step, with the calls that set the
\* step of alex_diff, and alex_gcd
NextStatus == SetDx \/ Diff \/ NextRules \/ NextAlgebra

SpecNumeric == Init /\ [][NextStatus]_vars

Next ==
    \/ NextFunc \/ NextCalc \/ NextNumeric \/ NextPoly \/ NextPolyCalc
    \/ NextAlgebra \/ NextArith \/ NextAdapter \/ NextPolyOps

Spec == Init /\ [][Next]_vars

-----------------------------------------------------------------------------
(* Reference values the claims are stated against *)

\* x! exactly, in WideBits bits
RECURSIVE RefFact(_)
RefFact(x) == IF x = 0 THEN UOne(WideBits) ELSE UMulSmall(RefFact(x - 1), x)

\* x! is below 2^w
FactFits(x, w) == \A i \in (NLimbs(w) + 1)..NLimbs(WideBits) : RefFact(x)[i] = 0

\* x! as a w-bit value, for x with FactFits(x, w)
FactAs(x, w) == SubSeq(RefFact(x), 1, NLimbs(w))

RECURSIVE NatFact(_)
NatFact(x) == IF x = 0 THEN 1 ELSE x * NatFact(x - 1)

\* m! / (n! (m-n)!) for small m >= n
RefBinom(m, n) == NatFact(m) \div (NatFact(n) * NatFact(m - n))

\* the sum of a sequence of doubles, added up from 0 in the order of the
\* sequence
RECURSIVE DSum(_)
DSum(q) ==
    IF q = <<>> THEN D(0) ELSE DAdd(DSum(SubSeq(q, 1, Len(q) - 1)), q[Len(q)])

\* the composite trapezoid rule with n >= 1 pieces, and the plain rule (n = 0),
\* in double arithmetic: the halved end values first, then the inner values
\* from left to right
RefTrap(f, range, n) ==
    LET width == DSub(range.max, range.min)
    IN  IF n = 0
        THEN DDiv(DMul(width, DAdd(UserFunc(f, range.min), UserFunc(f, range.max))), D(2))
        ELSE LET h == DDiv(width, D(n))
                 inner == [k \in 1..(n - 1) |->
                              UserFunc(f, DAdd(range.min, DMul(D(k), h)))]
             IN  DMul(h, DAdd(DAdd(DDiv(UserFunc(f, range.min), D(2)),
                                   DDiv(UserFunc(f, range.max), D(2))),
                              DSum(inner)))

\* the composite midpoint rule with n >= 1 pieces, and the plain rule (n = 0)
RefRect(f, range, n) ==
    LET width == DSub(range.max, range.min)
    IN  IF n = 0
        THEN DMul(width, UserFunc(f, DDiv(DAdd(range.min, range.max), D(2))))
        ELSE LET h == DDiv(width, D(n))
             IN  DSum([j \in 1..n |->
                          DMul(h, UserFunc(f, DAdd(range.min,
                                                   DMul(DNorm(2 * j - 1, 2), h))))])

\* x^k for k >= 0, with x^0 = 1
RECURSIVE RefPow(_, _)
RefPow(x, k) == IF k = 0 THEN D(1) ELSE DMul(RefPow(x, k - 1), x)

\* the sum of c[k] * x^k over the coefficients c (c[k] is c[k + 1] here)
RefEval(c, x) == DSum([k \in 1..Len(c) |-> DMul(c[k], RefPow(x, k - 1))])

\* the polynomial block p and its coefficient array are the same after the step
PolyUnchanged(p) ==
    /\ heap'[p] = heap[p]
    /\ heap'[heap[p].coeffs] = heap[heap[p].coeffs]

\* x_k of the secant recurrence: x_0 = min, x_1 = max,
\* x_{k+1} = x_k - f(x_k) * (x_k - x_{k-1}) / (f(x_k) - f(x_{k-1}))
RECURSIVE RefSecant(_, _, _)
RefSecant(f, range, k) ==
    IF k = 0 THEN range.min
    ELSE IF k = 1 THEN range.max
    ELSE LET a == RefSecant(f, range, k - 1)
             b == RefSecant(f, range, k - 2)
             fa == UserFunc(f, a)
             fb == UserFunc(f, b)
         IN  DSub(a, DDiv(DMul(fa, DSub(a, b)), DSub(fa, fb)))

\* the greatest d <= top that divides both m and n (top >= 1)
RECURSIVE GreatestDivisorFrom(_, _, _)
GreatestDivisorFrom(m, n, top) ==
    IF m % top = 0 /\ n % top = 0 THEN top
    ELSE GreatestDivisorFrom(m, n, top - 1)

\* the greatest common divisor of m and n, not both 0: every common divisor
\* is at most the smaller of the two that is not 0
RefGcd(m, n) ==
    GreatestDivisorFrom(m, n, IF m = 0 THEN n ELSE IF n = 0 THEN m
                              ELSE IF m < n THEN m ELSE n)

\* the least common multiple of m and n, (m / gcd) * n, exactly, in WideBits
\* bits; 0 when m or n is 0
RefLcm(m, n) ==
    IF m = 0 \/ n = 0 THEN UZero(WideBits)
    ELSE UMul(UFromNat(m \div RefGcd(m, n), NLimbs(WideBits)),
              UFromNat(n, NLimbs(WideBits)))

\* the least common multiple is below 2^32
LcmFits(m, n) ==
    \A i \in (NLimbs(IntBits) + 1)..NLimbs(WideBits) : RefLcm(m, n)[i] = 0

\* the global state after the step
StNext == [flag |-> flag', dx_step |-> dx_step', nbins |-> nbins',
           heap |-> heap', pub_poly |-> pub_poly']

-----------------------------------------------------------------------------
(* The claims *)

\* C1: for every x >= 1 whose factorial fits unsigned int (1 <= x <= 12),
\* alex_fact(x) returns x! and leaves the flag at ALEX_OK_FLAG; alex_factl
\* does the same for every x >= 1 whose factorial fits unsigned long.
C1_FactReturnsFactorial ==
    /\ (last.op = "alex_fact" /\ last.args[1] >= 1 /\ FactFits(last.args[1], IntBits))
          => (last.status = "returned" /\ last.ret = FactAs(last.args[1], IntBits)
              /\ flag = ALEX_OK_FLAG)
    /\ (last.op = "alex_factl" /\ last.args[1] >= 1 /\ FactFits(last.args[1], LongBits))
          => (last.status = "returned" /\ last.ret = FactAs(last.args[1], LongBits)
              /\ flag = ALEX_OK_FLAG)

\* C2: alex_fact(0) returns 1 and alex_factl(0) returns 1, with the flag set
\* to ALEX_OK_FLAG.
C2_FactOfZeroIsOne ==
    /\ (last.op = "alex_fact" /\ last.args[1] = 0)
          => (last.ret = UOne(IntBits) /\ flag = ALEX_OK_FLAG)
    /\ (last.op = "alex_factl" /\ last.args[1] = 0)
          => (last.ret = UOne(LongBits) /\ flag = ALEX_OK_FLAG)

\* C3: for every m >= n whose factorials fit the unsigned range,
\* alex_binom_coeff(m, n) returns m! / (n! (m-n)!), and alex_binom_coeffl
\* does the same on unsigned long.
C3_BinomReturnsCoefficient ==
    /\ (last.op = "alex_binom_coeff" /\ last.args[1] >= last.args[2]
            /\ FactFits(last.args[1], IntBits))
          => (last.status = "returned"
              /\ last.ret = UFromNat(RefBinom(last.args[1], last.args[2]), NLimbs(IntBits)))
    /\ (last.op = "alex_binom_coeffl" /\ last.args[1] >= last.args[2]
            /\ FactFits(last.args[1], LongBits))
          => (last.status = "returned"
              /\ last.ret = UFromNat(RefBinom(last.args[1], last.args[2]), NLimbs(LongBits)))

\* C4: for a polynomial p, alex_poly_coeff(p, index) with index > deg
\* returns the leading coefficient coeffs[deg] and the flag then reads
\* ALEX_POLY_INDEX_GT_DEG_FLAG; with index <= deg it returns coeffs[index]
\* and the flag reads ALEX_OK_FLAG.
C4_CoeffBeyondDegree ==
    (last.op = "alex_poly_coeff" /\ last.args[1] # NULL)
        => LET poly == last.args[1]
               index == last.args[2]
               deg == heap[poly].deg
           IN  /\ last.status = "returned"
               /\ IF index > deg
                  THEN /\ last.ret = CoeffsOf(St, poly)[deg + 1]
                       /\ flag = ALEX_POLY_INDEX_GT_DEG_FLAG
                  ELSE /\ last.ret = CoeffsOf(St, poly)[index + 1]
                       /\ flag = ALEX_OK_FLAG

\* C5: whatever the flag held before, after a successful call of
\* alex_secant_method (iterations >= 1), alex_diff, alex_poly_printf,
\* alex_poly_print, alex_poly_eval, alex_integrate_bins, alex_integrate_rect,
\* alex_integrate_trap, alex_poly_diff, alex_poly_integ or alex_gcd the flag
\* reads ALEX_OK_FLAG.  A call is successful when it returns, its parameters
\* are valid and its result is a finite number (a polynomial, a text).
C5_ComputingOpsSetFlagOk ==
    LET finite == last.ret.k = "fin"
        success ==
            \/ last.op = "alex_secant_method" /\ last.args[3] >= 1 /\ finite
            \/ last.op = "alex_diff" /\ finite
            \/ /\ last.op \in {"alex_integrate_rect", "alex_integrate_trap"}
               /\ last.args[3] >= 0
               /\ finite
            \/ last.op = "alex_integrate_bins" /\ finite
            \/ last.op \in {"alex_poly_printf", "alex_poly_print"}
            \/ last.op = "alex_poly_eval" /\ finite
            \/ last.op \in {"alex_poly_diff", "alex_poly_integ"} /\ last.ret # NULL
            \/ last.op = "alex_gcd" /\ (last.args[1] # 0 \/ last.args[2] # 0)
    IN  (last.status = "returned" /\ success) => flag = ALEX_OK_FLAG

\* C6: a call of alex_range_abs, alex_get_dx or alex_get_bins leaves the
\* flag, the stored dx step and the stored bin count as they were.
C6_AccessorsKeepState ==
    [][last'.op \in {"alex_range_abs", "alex_get_dx", "alex_get_bins"}
          => (flag' = flag /\ dx_step' = dx_step /\ nbins' = nbins)]_vars

\* an accessor has been called while the flag held a failure code and the
\* step and the bin count held values that had been set
C6_Witness ==
    /\ last.op = "alex_get_bins"
    /\ last.ret = ULong(2)
    /\ flag = ALEX_NEG_DX
    /\ dx_step = DNorm(1, 2)

\* C7: alex_set_dx(dx) with dx < 0 sets the flag to ALEX_NEG_DX and leaves
\* the stored step as it was; with dx >= 0 (dx = 0 included) it stores dx, so
\* that alex_get_dx() returns dx, and sets the flag to ALEX_OK_FLAG.
C7_SetDx ==
    [][last'.op = "alex_set_dx"
          => IF DLt(last'.args[1], D(0))
             THEN flag' = ALEX_NEG_DX /\ dx_step' = dx_step
             ELSE /\ dx_step' = last'.args[1]
                  /\ alex_get_dx(StNext).ret = last'.args[1]
                  /\ flag' = ALEX_OK_FLAG]_vars

\* alex_set_dx(-1) has been refused after the step had been set to 1/2
C7_Witness ==
    /\ last.op = "alex_set_dx"
    /\ last.args[1] = D(-1)
    /\ flag = ALEX_NEG_DX
    /\ dx_step = DNorm(1, 2)

\* C8: alex_make_range(min, max) with min <= max (min = max included)
\* returns a range with exactly the fields min and max, whose alex_range_abs
\* is max - min, and sets the flag to ALEX_OK_FLAG; with min > max it returns
\* NULL and sets the flag to ALEX_INV_RANGE_FLAG.  The first part is about
\* the calls whose malloc is answered: the others end with the flag at
\* ALEX_BAD_ALLOC_FLAG.
C8_MakeRange ==
    last.op = "alex_make_range"
        => LET min == last.args[1]
               max == last.args[2]
           IN  IF DLe(min, max)
               THEN flag # ALEX_BAD_ALLOC_FLAG
                    => /\ ~last.ret.null
                       /\ last.ret.min = min
                       /\ last.ret.max = max
                       /\ alex_range_abs(St, last.ret).ret = DSub(max, min)
                       /\ flag = ALEX_OK_FLAG
               ELSE last.ret = NULL_RANGE /\ flag = ALEX_INV_RANGE_FLAG

\* the degenerate range [1, 1] has been made
C8_Witness ==
    /\ last.op = "alex_make_range"
    /\ last.args = <<D(1), D(1)>>
    /\ last.ret = Range(D(1), D(1))
    /\ flag = ALEX_OK_FLAG

\* C9: for every x whose factorial exceeds the range of the variant
\* (x >= 13 for alex_fact, x >= 21 for alex_factl), the call returns 0 and
\* sets the flag to ALEX_FACT_OVERFLOW_FLAG.
C9_FactOverflow ==
    /\ (last.op = "alex_fact" /\ ~FactFits(last.args[1], IntBits))
          => (last.ret = UZero(IntBits) /\ flag = ALEX_FACT_OVERFLOW_FLAG)
    /\ (last.op = "alex_factl" /\ ~FactFits(last.args[1], LongBits))
          => (last.ret = UZero(LongBits) /\ flag = ALEX_FACT_OVERFLOW_FLAG)

\* alex_fact(13) has reported the overflow
C9_Witness ==
    /\ last.op = "alex_fact"
    /\ last.args[1] = 13
    /\ ~FactFits(13, IntBits) /\ FactFits(12, IntBits)
    /\ last.ret = UZero(IntBits)
    /\ flag = ALEX_FACT_OVERFLOW_FLAG

\* C10: alex_binom_coeff(m, n) and alex_binom_coeffl(m, n) with m < n return
\* 0 and set the flag to ALEX_INV_PARAM_FLAG; no factorial call overwrites it.
C10_BinomInvalid ==
    (last.op \in {"alex_binom_coeff", "alex_binom_coeffl"} /\ last.args[1] < last.args[2])
        => /\ last.status = "returned"
           /\ last.ret = (IF last.op = "alex_binom_coeff"
                          THEN UZero(IntBits) ELSE UZero(LongBits))
           /\ flag = ALEX_INV_PARAM_FLAG

\* alex_binom_coeff(2, 5) has been refused
C10_Witness ==
    /\ last.op = "alex_binom_coeff"
    /\ last.args = <<2, 5>>
    /\ last.ret = UZero(IntBits)
    /\ flag = ALEX_INV_PARAM_FLAG

\* C11: alex_poly_diff(p) returns a new polynomial d; when deg(p) >= 1, d has
\* degree deg(p) - 1 and d.coeffs[k] = p.coeffs[k+1] * (k+1) for k in
\* 0..deg(p)-1; when deg(p) = 0, d is the degree-0 polynomial with the single
\* coefficient 0; p's degree and coefficients are as before the call.  This
\* is about the calls whose allocations are answered: the others end with
\* the flag at ALEX_BAD_ALLOC_FLAG.
C11_PolyDiff ==
    [][(/\ last'.op = "alex_poly_diff" /\ last'.args[1] # NULL
        /\ flag' # ALEX_BAD_ALLOC_FLAG)
          => LET p == last'.args[1]
                 d == last'.ret
                 deg == heap[p].deg
                 pc == CoeffsOf(St, p)
             IN  /\ last'.status = "returned"
                 /\ d # NULL /\ heap[d].kind = "free" /\ heap'[d].kind = "poly"
                 /\ heap[heap'[d].coeffs].kind = "free"
                 /\ IF deg >= 1
                    THEN /\ heap'[d].deg = deg - 1
                         /\ CoeffsOf(StNext, d) = [j \in 1..deg |-> DMul(pc[j + 1], D(j))]
                    ELSE /\ heap'[d].deg = 0
                         /\ CoeffsOf(StNext, d) = <<D(0)>>
                 /\ PolyUnchanged(p)]_vars

\* the polynomial 1 + 2x + 3x^2 + 4x^3 has been differentiated to
\* 2 + 6x + 12x^2
C11_Witness ==
    /\ last.op = "alex_poly_diff"
    /\ last.status = "returned"
    /\ last.args[1] # NULL /\ last.ret # NULL
    /\ CoeffsOf(St, last.args[1]) = DocCoeffs
    /\ heap[last.ret].deg = 2
    /\ CoeffsOf(St, last.ret) = <<D(2), D(6), D(12)>>

\* C12: alex_poly_integ(p, c) returns a new polynomial F with
\* deg(F) = deg(p) + 1, F.coeffs[0] = c and F.coeffs[k+1] = p.coeffs[k] / (k+1)
\* for every k in 0..deg(p); p is as before the call.  This is about the
\* calls whose allocations are answered: the others end with the flag at
\* ALEX_BAD_ALLOC_FLAG.
C12_PolyInteg ==
    [][(/\ last'.op = "alex_poly_integ" /\ last'.args[1] # NULL
        /\ flag' # ALEX_BAD_ALLOC_FLAG)
          => LET p == last'.args[1]
                 c == last'.args[2]
                 F == last'.ret
                 deg == heap[p].deg
                 pc == CoeffsOf(St, p)
             IN  /\ last'.status = "returned"
                 /\ F # NULL /\ heap[F].kind = "free" /\ heap'[F].kind = "poly"
                 /\ heap[heap'[F].coeffs].kind = "free"
                 /\ heap'[F].deg = deg + 1
                 /\ CoeffsOf(StNext, F) =
                        [j \in 1..(deg + 2) |->
                            IF j = 1 THEN c ELSE DDiv(pc[j - 1], D(j - 1))]
                 /\ PolyUnchanged(p)]_vars

\* the polynomial 1 + 2x + 3x^2 + 4x^3 has been integrated with the constant
\* -1 to -1 + x + x^2 + x^3 + x^4
C12_Witness ==
    /\ last.op = "alex_poly_integ"
    /\ last.status = "returned"
    /\ last.args[1] # NULL /\ last.ret # NULL
    /\ CoeffsOf(St, last.args[1]) = DocCoeffs
    /\ last.args[2] = D(-1)
    /\ heap[last.ret].deg = 4
    /\ CoeffsOf(St, last.ret) = <<D(-1), D(1), D(1), D(1), D(1)>>

\* C13: when alex_poly_integ(p, c) has returned F and alex_poly_diff(F) is
\* called next and its allocations are answered, the polynomial it returns
\* has the degree of p and the coefficient of p at every index 0..deg(p), and
\* alex_poly_cmp of it with p is 0.  The coefficients are those callers pass
\* here, integers of small size: for them c / (k + 1) * (k + 1) is c in
\* double arithmetic as well.
C13_RoundTrip ==
    [][(/\ last.op = "alex_poly_integ" /\ last.status = "returned" /\ last.ret # NULL
        /\ last'.op = "alex_poly_diff" /\ last'.args[1] = last.ret
        /\ flag' # ALEX_BAD_ALLOC_FLAG)
          => LET p == last.args[1]
                 d == last'.ret
             IN  /\ last'.status = "returned"
                 /\ d # NULL
                 /\ heap'[d].deg = heap'[p].deg
                 /\ \A i \in 1..(heap'[p].deg + 1) :
                        CoeffsOf(StNext, d)[i] = CoeffsOf(StNext, p)[i]
                 /\ alex_poly_cmp(StNext, d, p).ret = 0]_vars

\* the antiderivative F (degree 2) of a live polynomial p of degree 1 with a
\* leading coefficient other than 0 has been differentiated, and the result
\* compares equal to p
C13_Witness ==
    /\ last.op = "alex_poly_diff"
    /\ last.status = "returned"
    /\ last.args[1] # NULL /\ last.ret # NULL
    /\ heap[last.args[1]].deg = 2
    /\ \E p \in LivePolys(St) \ {last.ret} :
          /\ heap[p].deg = 1
          /\ ~DIsZero(CoeffsOf(St, p)[2])
          /\ \A i \in 1..2 :
                CoeffsOf(St, last.args[1])[i + 1] = DDiv(CoeffsOf(St, p)[i], D(i))
          /\ alex_poly_cmp(St, last.ret, p).ret = 0

\* C14: alex_poly_eval(p, x) returns the sum over k in 0..deg(p) of
\* p.coeffs[k] * x^k, with x^0 = 1 also at x = 0 (so that the value at 0 is
\* the trailing coefficient), sets the flag to ALEX_OK_FLAG and leaves p as
\* it was.
C14_PolyEval ==
    [][(last'.op = "alex_poly_eval" /\ last'.args[1] # NULL)
          => LET p == last'.args[1]
                 x == last'.args[2]
             IN  /\ last'.status = "returned"
                 /\ last'.ret = RefEval(CoeffsOf(St, p), x)
                 /\ DIsZero(x) => last'.ret = CoeffsOf(St, p)[1]
                 /\ flag' = ALEX_OK_FLAG
                 /\ heap' = heap]_vars

\* 1 + 2x + 3x^2 + 4x^3 has been evaluated at 1, to 10
C14_Witness ==
    /\ last.op = "alex_poly_eval"
    /\ last.status = "returned"
    /\ last.args[1] # NULL
    /\ CoeffsOf(St, last.args[1]) = DocCoeffs
    /\ last.args[2] = D(1)
    /\ last.ret = D(10)
    /\ flag = ALEX_OK_FLAG

\* C15: alex_poly_integ_range(p, r) with a range r returns
\* alex_poly_eval(F, r.max) - alex_poly_eval(F, r.min) for F = alex_poly_integ(p, 0),
\* sets the flag to ALEX_OK_FLAG and leaves p as it was; with r = NULL it
\* returns 0 and sets the flag to ALEX_INV_PARAM_FLAG.  The first part is
\* about the calls whose allocations are answered: the others end with the
\* flag at ALEX_BAD_ALLOC_FLAG.
C15_PolyIntegRange ==
    [][last'.op = "alex_poly_integ_range"
          => LET p == last'.args[1]
                 r == last'.args[2]
                 F == alex_poly_integ(St, p, D(0), TRUE, TRUE, TRUE)
             IN  IF r.null
                 THEN /\ last'.status = "returned"
                      /\ last'.ret = D(0)
                      /\ flag' = ALEX_INV_PARAM_FLAG
                 ELSE (p # NULL /\ flag' # ALEX_BAD_ALLOC_FLAG)
                      => /\ last'.status = "returned"
                         /\ \E hi \in alex_poly_eval(F.S, F.ret, r.max),
                               lo \in alex_poly_eval(F.S, F.ret, r.min) :
                                last'.ret = DSub(hi.ret, lo.ret)
                         /\ flag' = ALEX_OK_FLAG
                         /\ PolyUnchanged(p)]_vars

\* 1 + 2x + 3x^2 + 4x^3 has been integrated over [0, 1], to 4
C15_Witness ==
    /\ last.op = "alex_poly_integ_range"
    /\ last.status = "returned"
    /\ last.args[1] # NULL
    /\ CoeffsOf(St, last.args[1]) = DocCoeffs
    /\ last.args[2] = Range(D(0), D(1))
    /\ last.ret = D(4)
    /\ flag = ALEX_OK_FLAG

\* C16: for polynomials p and q, alex_poly_cmp(p, q) returns 0 exactly when
\* they have the same degree and the same coefficient at every index; when
\* the degrees differ it returns deg(p) - deg(q), negative when
\* deg(p) < deg(q); when the degrees match and i is the first index, from 0
\* upward, where the coefficients differ, it returns deg(p) + 1 - i; and
\* alex_poly_cmp(p, alex_poly_cpy(p)) is 0 when alex_poly_cpy has returned a
\* copy (its allocations were answered).
C16_PolyCmp ==
    [][/\ (last'.op = "alex_poly_cmp" /\ last'.args[1] # NULL /\ last'.args[2] # NULL)
            => LET p == last'.args[1]
                   q == last'.args[2]
                   pc == CoeffsOf(St, p)
                   qc == CoeffsOf(St, q)
                   differ == {i \in 0..heap[p].deg : ~DEq(pc[i + 1], qc[i + 1])}
               IN  /\ last'.status = "returned"
                   /\ last'.ret = 0 <=> (heap[p].deg = heap[q].deg /\ differ = {})
                   /\ heap[p].deg # heap[q].deg
                         => last'.ret = heap[p].deg - heap[q].deg
                   /\ (heap[p].deg = heap[q].deg /\ differ # {})
                         => \E i \in differ :
                               /\ \A j \in differ : i <= j
                               /\ last'.ret = heap[p].deg + 1 - i
       /\ (/\ last'.op = "alex_poly_cpy" /\ last'.args[1] # NULL
           /\ flag' # ALEX_BAD_ALLOC_FLAG)
            => /\ last'.ret # NULL
               /\ alex_poly_cmp(StNext, last'.args[1], last'.ret).ret = 0]_vars

\* a polynomial of degree 0 has been compared with one of degree 3, and the
\* result is -3
C16_Witness ==
    /\ last.op = "alex_poly_cmp"
    /\ last.status = "returned"
    /\ last.args[1] # NULL /\ last.args[2] # NULL
    /\ heap[last.args[1]].deg = 0
    /\ heap[last.args[2]].deg = 3
    /\ last.ret = -3

\* C17: alex_integrate_trap(f, range, n) with n >= 1 returns
\* (width/n) * (f(min)/2 + sum of f(min + k*width/n) for k in 1..n-1 + f(max)/2),
\* with n = 0 it returns width * (f(min) + f(max)) / 2, and for the constant
\* function 1 it returns width for every n >= 0.
C17_TrapRule ==
    (last.op = "alex_integrate_trap" /\ last.args[3] >= 0)
        => LET f == last.args[1]
               range == last.args[2]
               n == last.args[3]
           IN  /\ last.status = "returned"
               /\ last.ret = RefTrap(f, range, n)
               /\ f = "one" => last.ret = DSub(range.max, range.min)

\* the trapezoid rule has run on [0, 1] with the large count on the
\* constant function, and returned 1
C17_Witness ==
    /\ last.op = "alex_integrate_trap"
    /\ last.args = <<"one", Range(D(0), D(1)), LargeCount>>
    /\ last.status = "returned"
    /\ last.ret = D(1)

\* C18: alex_integrate_rect(f, range, n) with n >= 1 returns the composite
\* midpoint rule, the sum over j in 0..n-1 of h * f(min + (j + 1/2) * h) with
\* h = width/n; with n = 0 it returns width * f((min + max)/2); for the
\* constant function 1 it returns width for every n >= 0.
C18_RectRule ==
    (last.op = "alex_integrate_rect" /\ last.args[3] >= 0)
        => LET f == last.args[1]
               range == last.args[2]
               n == last.args[3]
           IN  /\ last.status = "returned"
               /\ last.ret = RefRect(f, range, n)
               /\ f = "one" => last.ret = DSub(range.max, range.min)

\* C19: a call of alex_integrate_bins on a range with min <= max, made while
\* the stored bin count is >= 1, returns.
C19_BinsTerminates ==
    (last.op = "alex_integrate_bins" /\ last.status = "running"
        /\ nbins # UZero(LongBits))
        ~> (last.status = "returned")

\* C20: alex_secant_method with iterations = 0, and alex_integrate_rect and
\* alex_integrate_trap with subintervals < 0, return 0, set the flag to
\* ALEX_INV_PARAM_FLAG and do not invoke f.
C20_InvalidCounts ==
    (\/ last.op = "alex_secant_method" /\ last.args[3] = 0
     \/ last.op \in {"alex_integrate_rect", "alex_integrate_trap"} /\ last.args[3] < 0)
        => /\ last.status = "returned"
           /\ last.ret = D(0)
           /\ flag = ALEX_INV_PARAM_FLAG
           /\ last.evals = <<>>

\* alex_secant_method has refused iterations = 0 on the function x
C20_Witness ==
    /\ last.op = "alex_secant_method"
    /\ last.args = <<"ident", Range(D(0), D(1)), 0>>
    /\ last.ret = D(0)
    /\ flag = ALEX_INV_PARAM_FLAG
    /\ last.evals = <<>>

\* C21: for iterations = n >= 1, alex_secant_method(f, range, n) returns
\* x_{n+1} of the secant recurrence seeded with x_0 = range.min and
\* x_1 = range.max; it performs exactly n steps (three invocations of f in
\* each, at x_k, x_k and x_{k-1}), whatever the values of f, and the library's
\* state, the flag included, is what it was before the call.
C21_SecantRecurrence ==
    [][(last'.op = "alex_secant_method" /\ last'.args[3] >= 1)
       => LET f == last'.args[1]
              range == last'.args[2]
              n == last'.args[3]
          IN  /\ last'.status = "returned"
              /\ last'.ret = RefSecant(f, range, n + 1)
              /\ Len(last'.evals) = 3 * n
              /\ \A k \in 1..n :
                    /\ last'.evals[3 * k - 2] = RefSecant(f, range, k)
                    /\ last'.evals[3 * k - 1] = RefSecant(f, range, k)
                    /\ last'.evals[3 * k] = RefSecant(f, range, k - 1)
              /\ StNext = St]_vars

\* alex_secant_method(2x - 1, [0, 1], 2) has returned 1/2 after six
\* invocations of f
C21_Witness ==
    /\ last.op = "alex_secant_method"
    /\ last.args = <<"affine", Range(D(0), D(1)), 2>>
    /\ last.status = "returned"
    /\ last.ret = DNorm(1, 2)
    /\ Len(last.evals) = 6

\* C22: alex_gcd(m, n) returns (it never takes a remainder modulo 0, which
\* would trap); for (m, n) other than (0, 0) the value is the greatest common
\* divisor, with gcd(0, n) = n and gcd(m, 0) = m, the flag is ALEX_OK_FLAG,
\* and alex_gcd(n, m) gives the same value; alex_gcd(0, 0) returns 0 and sets
\* ALEX_ALG_INV_OP_FLAG.
C22_Gcd ==
    last.op = "alex_gcd"
    => LET m == last.args[1]
           n == last.args[2]
       IN  /\ last.status = "returned"
           /\ (m = 0 /\ n = 0) => (last.ret = 0 /\ flag = ALEX_ALG_INV_OP_FLAG)
           /\ ~(m = 0 /\ n = 0)
              => /\ last.ret = RefGcd(m, n)
                 /\ flag = ALEX_OK_FLAG
                 /\ m = 0 => last.ret = n
                 /\ n = 0 => last.ret = m
                 /\ ~alex_gcd(St, n, m).crashed
                 /\ alex_gcd(St, n, m).ret = last.ret

\* alex_gcd(4, 0) has returned 4: the arguments were exchanged before the
\* first remainder was taken
C22_Witness ==
    /\ last.op = "alex_gcd"
    /\ last.args = <<MaxGcdArg, 0>>
    /\ last.status = "returned"
    /\ last.ret = MaxGcdArg
    /\ flag = ALEX_OK_FLAG

\* C23: for every m, n whose least common multiple is below 2^32,
\* alex_lcm(m, n) returns that least common multiple (0 when m or n is 0),
\* also when m*n is 2^32 or more, and the flag is ALEX_OK_FLAG.
C23_Lcm ==
    (last.op = "alex_lcm" /\ LcmFits(last.args[1], last.args[2]))
    => /\ last.status = "returned"
       /\ last.ret = SubSeq(RefLcm(last.args[1], last.args[2]), 1, NLimbs(IntBits))
       /\ flag = ALEX_OK_FLAG

\* C24: the adapter is one slot.  Every call alex_poly_func(q) with q not
\* NULL returns the same function, _poly_func, and makes q the polynomial of
\* the slot; alex_make_poly leaves the slot alone; calling the function with
\* x evaluates the polynomial of the slot at x, so that right after
\* alex_poly_func(q), and whatever was converted before, it yields the value
\* of alex_poly_eval(q, x).
C24_AdapterSlot ==
    [][/\ (last'.op = "alex_poly_func" /\ last'.args[1] # NULL)
          => /\ last'.ret = FuncPtr("_poly_func")
             /\ pub_poly' = last'.args[1]
       /\ (last.op = "alex_poly_func" /\ last'.op = "alex_poly_func"
             /\ last.args[1] # NULL /\ last'.args[1] # NULL)
          => last'.ret = last.ret
       /\ last'.op = "alex_make_poly" => pub_poly' = pub_poly
       /\ (last'.op = "_poly_func" /\ pub_poly # NULL)
          => /\ last'.status = "returned"
             /\ last'.ret = RefEval(CoeffsOf(St, pub_poly), last'.args[1])
             /\ \E v \in alex_poly_eval(St, pub_poly, last'.args[1]) : last'.ret = v.ret
       /\ (last.op = "alex_poly_func" /\ last.args[1] # NULL /\ last'.op = "_poly_func")
          => /\ last'.status = "returned"
             /\ \E v \in alex_poly_eval(St, last.args[1], last'.args[1]) :
                    last'.ret = v.ret]_vars

\* two polynomials with different values at 1 are live, the slot holds the
\* one at the higher address, which was made and converted later, and the
\* function called with 1 has returned the value of that one
C24_Witness ==
    /\ last.op = "_poly_func"
    /\ last.args = <<D(1)>>
    /\ last.status = "returned"
    /\ pub_poly # NULL
    /\ \E p \in LivePolys(St) :
          /\ p < pub_poly
          /\ RefEval(CoeffsOf(St, p), D(1)) # RefEval(CoeffsOf(St, pub_poly), D(1))
          /\ last.ret = RefEval(CoeffsOf(St, pub_poly), D(1))

\* C25: every operation called with a NULL polynomial returns, with the flag
\* at ALEX_INV_PARAM_FLAG and its sentinel as value: 0 for alex_poly_deg,
\* alex_poly_isconst and alex_poly_cmp (either argument NULL), 0. for
\* alex_poly_coeff, alex_poly_eval, alex_poly_lead and alex_poly_trail, NULL
\* for alex_poly_diff, alex_poly_integ and alex_poly_cpy; alex_poly_printf
\* returns as well.  No call dereferences the NULL pointer (which would end
\* the call with a trap).
C25_NullPolynomial ==
    LET null1 == last.args[1] = NULL
    IN  /\ (last.op \in {"alex_poly_deg", "alex_poly_isconst"} /\ null1)
           => (last.status = "returned" /\ flag = ALEX_INV_PARAM_FLAG /\ last.ret = 0)
        /\ (last.op = "alex_poly_cmp" /\ (null1 \/ last.args[2] = NULL))
           => (last.status = "returned" /\ flag = ALEX_INV_PARAM_FLAG /\ last.ret = 0)
        /\ (last.op \in {"alex_poly_coeff", "alex_poly_eval", "alex_poly_lead",
                         "alex_poly_trail"} /\ null1)
           => (last.status = "returned" /\ flag = ALEX_INV_PARAM_FLAG /\ last.ret = D(0))
        /\ (last.op \in {"alex_poly_diff", "alex_poly_integ", "alex_poly_cpy"} /\ null1)
           => (last.status = "returned" /\ flag = ALEX_INV_PARAM_FLAG /\ last.ret = NULL)
        /\ (last.op = "alex_poly_printf" /\ null1)
           => (last.status = "returned" /\ flag = ALEX_INV_PARAM_FLAG)

\* C26: after every call, every live polynomial has a coefficient array of
\* exactly deg + 1 entries, and no two live polynomials have the same array.
\* The polynomial alex_make_poly, alex_poly_cpy, alex_poly_diff or
\* alex_poly_integ returns is built in blocks that were free before the call:
\* its array is neither the array the caller passed nor the buffer the
\* derivative / antiderivative was computed in.  alex_free_poly(p) leaves the
\* degree and the coefficients of every other live polynomial unchanged, the
\* copies, derivatives and antiderivatives of p included.
C26_PolysOwnCoefficients ==
    [][/\ \A p \in LivePolys(StNext) :
             /\ heap'[p].coeffs # NULL
             /\ heap'[heap'[p].coeffs].kind = "array"
             /\ Len(heap'[heap'[p].coeffs].data) = heap'[p].deg + 1
       /\ \A p, q \in LivePolys(StNext) : p # q => heap'[p].coeffs # heap'[q].coeffs
       /\ (last'.op \in {"alex_make_poly", "alex_poly_cpy", "alex_poly_diff",
                         "alex_poly_integ"} /\ last'.ret # NULL)
          => /\ heap[last'.ret].kind = "free"
             /\ heap[heap'[last'.ret].coeffs].kind = "free"
       /\ (last'.op \in {"alex_poly_diff", "alex_poly_integ"} /\ last'.ret # NULL)
          => heap'[last'.ret].coeffs # Alloc(St)
       /\ (last'.op = "alex_free_poly" /\ last'.args[1] # NULL)
          => \A q \in LivePolys(St) \ {last'.args[1]} : PolyUnchanged(q)]_vars

\* alex_free_poly has released a polynomial, and the antiderivative of
\* {1., 2., 3., 4.} is live with its five coefficients c, 1, 1, 1, 1 while no
\* polynomial of degree 3 is live any more: its source has been freed
C26_Witness ==
    /\ last.op = "alex_free_poly"
    /\ last.args[1] # NULL
    /\ \A p \in LivePolys(St) : heap[p].deg # Len(DocCoeffs) - 1
    /\ \E q \in LivePolys(St) :
          /\ heap[q].deg = Len(DocCoeffs)
          /\ SubSeq(CoeffsOf(St, q), 2, Len(DocCoeffs) + 1) = <<D(1), D(1), D(1), D(1)>>

\* C27: with a stored bin count N >= 1 and a range with min < max,
\* alex_integrate_bins runs its loop body N times, at the grid points
\* min + i*delta for i = 0..N-1 with delta = (max - min)/N, so that the loop
\* is left with cur = min + N*delta, and it returns the sum of
\* delta * f(min + i*delta) over these N points; for f(x) = 1 that is the
\* width max - min.  N is the stored count itself, an unsigned long; the sum
\* is written out for the counts N <= MaxBins.
C27_BinsGrid ==
    [][(/\ last.op = "alex_integrate_bins" /\ last.status = "running"
        /\ last'.status = "returned"
        /\ nbins # UZero(LongBits)
        /\ DLt(last.args[2].min, last.args[2].max))
       => LET f == last.args[1]
              range == last.args[2]
              width == DSub(range.max, range.min)
              delta == DDiv(width, DFromULong(nbins))
          IN  /\ frame.cur = DAdd(range.min, DMul(DFromULong(nbins), delta))
              /\ nbins \in {ULong(n) : n \in 1..MaxBins}
                    => last'.ret = DSum([i \in 1..USmallNat(nbins) |->
                                 DMul(delta, UserFunc(f, DAdd(range.min,
                                                              DMul(D(i - 1), delta))))])
              /\ f = "one" => last'.ret = width]_vars

\* C28: when alex_secant_method(f, range, n) with n >= 1 has returned an
\* exact root r of f, a following call alex_secant_method(f, range, n') with
\* n' > n returns r as well.
C28_SecantKeepsRoot ==
    [][(/\ last.op = "alex_secant_method" /\ last'.op = "alex_secant_method"
        /\ last.args[3] >= 1
        /\ last.ret.k = "fin"
        /\ DIsZero(UserFunc(last.args[1], last.ret))
        /\ last'.args[1] = last.args[1]
        /\ last'.args[2] = last.args[2]
        /\ last'.args[3] > last.args[3])
       => last'.ret = last.ret]_vars

\* C29: after any sequence of alex_make_poly, alex_poly_func and
\* alex_free_poly calls the slot pub_poly is NULL or holds a live polynomial:
\* alex_free_poly(p) makes it NULL when it holds p and leaves it as it is
\* when it holds another polynomial.
C29_SlotNeverDangles ==
    [][/\ pub_poly' = NULL \/ pub_poly' \in LivePolys(StNext)
       /\ (last'.op = "alex_free_poly" /\ last'.args[1] # NULL)
          => pub_poly' = IF pub_poly = last'.args[1] THEN NULL ELSE pub_poly]_vars

\* alex_free_poly has released the polynomial the slot held (it was the
\* first one made, at address 1), and the slot is NULL; the caller still
\* holds the function
C29_Witness ==
    /\ last.op = "alex_free_poly"
    /\ last.args = <<1>>
    /\ heap[1].kind = "free"
    /\ held
    /\ pub_poly = NULL

\* C30: when alex_poly_diff or alex_poly_integ returns a polynomial, the
\* allocations that are live and were not live before the call are the two
\* of that polynomial (the struct and its coefficient array), and none when
\* it returns NULL; alex_poly_integ_range leaves the set of live allocations
\* as it was before the call.
C30_TemporariesReleased ==
    [][/\ (last'.op \in {"alex_poly_diff", "alex_poly_integ"}
             /\ last'.status = "returned")
          => LiveBlocks(StNext) \ LiveBlocks(St)
                = IF last'.ret = NULL THEN {}
                  ELSE {last'.ret, heap'[last'.ret].coeffs}
       /\ (last'.op = "alex_poly_integ_range" /\ last'.status = "returned")
          => LiveBlocks(StNext) = LiveBlocks(St)]_vars

=============================================================================
